---- MODULE Spec2Model ----
(***************************************************************************)
(* Model of the pico-pitch pipeline: the orchestrator's staged run         *)
(* (src/orchestrator.py) over the lead and opportunity tables, with the    *)
(* thread-pool fan-out of each stage, and the theme consolidator           *)
(* (src/gemini_interaction_agent.py, src/analyzers/theme_analyzer.py),     *)
(* the rate-limit retry wrapper (src/gemini_core.py) and the evidence      *)
(* aggregator (src/utils/evidence_aggregator.py).                          *)
(*                                                                         *)
(* The model provider and the store are external: every call to them is a  *)
(* nondeterministic choice over the outcomes the caller distinguishes      *)
(* (a value, "no result", a raised exception).                             *)
(***************************************************************************)
EXTENDS Integers, Sequences, FiniteSets, TLC

(***************************************************************************)
(* Bounds of the model.                                                    *)
(***************************************************************************)
NLeads == 3        \* leads of the current session that start in new_raw_lead
MaxWorkers == 2    \* worker threads of one ThreadPoolExecutor
MaxLabels == 3     \* longest label list handed to the consolidator alone
MaxNames == 51     \* longest label list handed to the consolidator with the coarse provider
MaxRetries == 3    \* largest max_retries given to the retry decorator alone
MaxDelay == 5      \* largest initial_delay given to the retry decorator alone
MaxRecords == 3    \* longest leads_data given to the evidence aggregator alone
MaxPosts == 80     \* longest leads_data of plain records given to the aggregator

(***************************************************************************)
(* Program constants.                                                      *)
(***************************************************************************)
MIN_LEADS_FOR_THEME == 3
LEAD_PAGE_SIZE == 50
THEME_BATCH_SIZE == 50
MAX_DOMAINS_TO_PROCESS == 2000
DEFAULT_MAX_RETRIES == 3
DEFAULT_INITIAL_DELAY == 5

(***************************************************************************)
(* The lead table.  Leads 1..NLeads were stored by the scrape of the       *)
(* current session.  Three more rows exist before the run starts: a new    *)
(* lead and an extracted lead of another session, and a lead of this       *)
(* session that an earlier run already moved to problem_extracted.         *)
(***************************************************************************)
SessionNew == 1..NLeads
OtherNewLead == NLeads + 1
OtherExtractedLead == NLeads + 2
StaleExtractedLead == NLeads + 3
AllLeads == 1..(NLeads + 3)

LeadSession(l) == IF l \in SessionNew \cup {StaleExtractedLead} THEN "this" ELSE "other"

\* reddit_id and permalink are both present (the row came from the scraper);
\* lead 1 stands for a row stored without a permalink.
HasRedditIdAndPermalink(l) == l # 1

USE_ENHANCED_EXTRACTION == TRUE

ProviderDomains == {"d1"}
FallbackDomain == "Unknown"
NoDomain == "none"

VARIABLES
    sessionFile,      \* the .current_session_id file exists and names this session
    runState,         \* "idle", "running", "no_session", "aborted", "crashed", "complete"
    stage,            \* stage main() is in: 1, 2 (2 and 2.5), 3, 4, 5, 6
    phase,            \* "fetch", "consolidate", "map", "exit", "raise"
    leadStatus,       \* raw_leads.status
    leadDomain,       \* raw_leads.gemini_problem_domain
    emptyBody,        \* the leads whose raw_leads.body_text is empty or blank
    opps,             \* the opportunities table, a sequence indexed by id
                      \* (based_on_lead_ids is kept as the set of its elements)
    sessionLeadIds,   \* main(): session_lead_ids
    processedLeads,   \* main(): processed_leads, as the sequence of fetched ids
    themes,           \* main(): consolidated_theme_map
    sessionOppIds,    \* main(): session_opportunity_ids
    tasks,            \* the work items of the executor, in submission order
    fs,               \* Executor.map: futures whose result is still to be read
    cImpl,            \* which copy of the consolidator runs
    cRawDomains,      \* main(): raw_domains, the list the consolidator is called with
    cDomains,         \* consolidate: domain_list
    cBatchSize,       \* consolidate: batch_size
    cMaxDomains,      \* consolidate: max_domains
    cIdx,             \* consolidate: the loop index i
    cResult,          \* consolidate: consolidated_result
    cPhase,           \* "idle", "call", "pass1", "pass2", "done"
    cOut,             \* consolidate: the returned value
    cLog,             \* consolidate: what each model call came back as (the log)
    rFunc,            \* retry wrapper: the shape of the wrapped function
    rEmpty,           \* wrapped function: its text argument is empty
    max_retries,      \* retry_on_rate_limit: max_retries
    initial_delay,    \* retry_on_rate_limit: initial_delay
    retries,          \* wrapper: retries
    delay,            \* wrapper: delay
    rCalls,           \* the provider's answers to the calls made so far
    rSleeps,          \* the time.sleep() calls made so far
    rPhase,           \* "idle", "call", "loop", "done"
    rOut,             \* how the wrapper ended: a returned value or an exception
    eRecords,         \* aggregate_evidence_for_opportunity: leads_data
    eIdx,             \* aggregate: the position of the loop in leads_data
    evidence,         \* aggregate: evidence
    ePhase            \* "idle", "call", "loop", "done"

storeVars == <<leadStatus, leadDomain, opps>>
mainVars == <<sessionFile, runState, stage, phase, sessionLeadIds, processedLeads,
              themes, sessionOppIds>>
poolVars == <<tasks, fs>>
consVars == <<cRawDomains, cImpl, cDomains, cBatchSize, cMaxDomains, cIdx, cResult, cPhase, cOut, cLog>>
retryVars == <<rFunc, rEmpty, max_retries, initial_delay, retries, delay, rCalls,
               rSleeps, rPhase, rOut>>
pipeVars == <<storeVars, mainVars, poolVars>>
evidVars == <<eRecords, eIdx, evidence, ePhase>>
vars == <<pipeVars, consVars, retryVars, emptyBody, evidVars>>

(***************************************************************************)
(* Sequence helpers.                                                       *)
(***************************************************************************)
Range(s) == {s[i] : i \in DOMAIN s}

Take(s, n) == IF Len(s) <= n THEN s ELSE SubSeq(s, 1, n)

\* The elements of a set of integers in ascending order (the order in which
\* the store returns rows is modelled as ascending id).
RECURSIVE SortedSeq(_)
SortedSeq(S) ==
    IF S = {} THEN <<>>
    ELSE LET m == CHOOSE x \in S : \A y \in S : x <= y
         IN <<m>> \o SortedSeq(S \ {m})

RECURSIVE Flatten(_)
Flatten(ss) == IF ss = <<>> THEN <<>> ELSE Head(ss) \o Flatten(Tail(ss))


(***************************************************************************)
(* Theme maps.  A Python dict from theme name to list of labels is a       *)
(* function from a set of names to sequences.  Names and labels are opaque *)
(* to the code, so the order of the keys is fixed (ThemeOrder) where the   *)
(* code iterates a dict.                                                   *)
(***************************************************************************)
ThemeNames == {"T1", "T2"}
ThemeOrder == <<"T1", "T2">>
StrayName == "T9"          \* a name the provider invents in a second pass
LabelPool == <<"d1", "d2", "Unknown", "d3", "d4">>

EmptyMap == [k \in {} |-> <<>>]

\* The variant appends the list of an equal key to the list already there.
DictUpdate_Append(m, other) ==
    [k \in DOMAIN m \cup DOMAIN other |->
        IF k \in DOMAIN m /\ k \in DOMAIN other THEN m[k] \o other[k]
        ELSE IF k \in DOMAIN other THEN other[k] ELSE m[k]]

\* dict.update(other): keys of other replace equal keys, value and all
DictUpdate(m, other) ==
    [k \in DOMAIN m \cup DOMAIN other |-> IF k \in DOMAIN other THEN other[k] ELSE m[k]]

(***************************************************************************)
(* What one model call of the consolidation prompt can come back as, as    *)
(* far as the caller tells the cases apart: an exception of the provider   *)
(* (rate limit included: the broad handler catches it), text that is not   *)
(* JSON, JSON that is not an object, or an object from names to lists of   *)
(* the items it was given (any object: the provider is not trusted; a list *)
(* may be empty, lists may overlap, items may be left out).                *)
(***************************************************************************)
ItemOrder == LabelPool \o ThemeOrder \o <<StrayName>>

\* the list of the members of a set of items, in ItemOrder
ListOf(S) == SelectSeq(ItemOrder, LAMBDA x : x \in S)

\* every object from some of the names to lists without repetition
DictAnswers(items) ==
    UNION {[S -> {ListOf(M) : M \in SUBSET items}] : S \in SUBSET ThemeNames}

\* For a long list of labels the objects are two: every item under a name
\* of its own (its own text), and all the items under one name.
ManyLabels ==
   << "L01", "L02", "L03", "L04", "L05", "L06", "L07", "L08",
      "L09", "L10", "L11", "L12", "L13", "L14", "L15", "L16",
      "L17", "L18", "L19", "L20", "L21", "L22", "L23", "L24",
      "L25", "L26", "L27", "L28", "L29", "L30", "L31", "L32",
      "L33", "L34", "L35", "L36", "L37", "L38", "L39", "L40",
      "L41", "L42", "L43", "L44", "L45", "L46", "L47", "L48",
      "L49", "L50", "L51", "L52" >>

CoarseAnswers(items) ==
    {[x \in items |-> <<x>>],
     [k \in {"T1"} |-> SelectSeq(ManyLabels \o ThemeOrder, LAMBDA x : x \in items)]}

BatchAnswers(items) ==
    {[kind |-> k, map |-> EmptyMap] : k \in {"error", "badjson", "nondict"}}
    \cup {[kind |-> "dict", map |-> m] :
             m \in IF items \subseteq Range(ItemOrder) THEN DictAnswers(items)
                   ELSE CoarseAnswers(items \ {StrayName})}

(***************************************************************************)
(* consolidate_themes_with_gemini, as a step machine: one step per model   *)
(* call.  cImpl tells the two copies of the function apart: "agent" is     *)
(* gemini_interaction_agent.py (the one the orchestrator imports),         *)
(* "analyzer" is analyzers/theme_analyzer.py.  They differ in the second   *)
(* pass only.                                                              *)
(***************************************************************************)
AGENT_SECOND_PASS_LIMIT == 50
ANALYZER_SECOND_PASS_LIMIT == 200

SecondPassLimit(impl) ==
    IF impl = "agent" THEN AGENT_SECOND_PASS_LIMIT ELSE ANALYZER_SECOND_PASS_LIMIT

\* how often a label occurs in the value lists of a map
RECURSIVE SumOver(_, _)
SumOver(f, S) ==
    IF S = {} THEN 0
    ELSE LET k == CHOOSE x \in S : TRUE IN f[k] + SumOver(f, S \ {k})

CountIn(seq, x) == Cardinality({i \in DOMAIN seq : seq[i] = x})

Occurrences(m, x) == SumOver([k \in DOMAIN m |-> CountIn(m[k], x)], DOMAIN m)

Members(m) == UNION {Range(m[k]) : k \in DOMAIN m}

\* every item in exactly one value list, once, and nothing else in the lists
IsPartitionOf(m, items) ==
    /\ \A x \in items : Occurrences(m, x) = 1
    /\ Members(m) \subseteq items

\* the log line of one model call
LogOf(ans, items) ==
    IF ans.kind # "dict" THEN ans.kind
    ELSE IF DOMAIN ans.map = {} THEN "empty"
    ELSE IF IsPartitionOf(ans.map, items) THEN "partition"
    ELSE "dict"

FailedKinds == {"error", "badjson", "nondict"}

NoneResult == [ok |-> FALSE, map |-> EmptyMap]
MapResult(m) == [ok |-> TRUE, map |-> m]

\* The variant keeps the whole list.
Truncate_KeepAll(domain_list, max_domains) == domain_list

\* entry: the empty-list test and the max_domains truncation
Truncate(domain_list, max_domains) == Take(domain_list, max_domains)

ConsEnter ==
    /\ cPhase = "call"
    /\ IF cDomains = <<>>
       THEN /\ cPhase' = "done"
            /\ cOut' = NoneResult
            /\ UNCHANGED cDomains
       ELSE /\ cPhase' = "pass1"
            /\ cDomains' = Truncate(cDomains, cMaxDomains)
            /\ UNCHANGED cOut
    /\ cIdx' = 0
    /\ cResult' = EmptyMap
    /\ UNCHANGED <<cRawDomains, cImpl, cBatchSize, cMaxDomains, cLog, pipeVars, retryVars, emptyBody, evidVars>>

\* domain_list[i:i + batch_size]
Batch(domain_list, i, batch_size) ==
    SubSeq(domain_list, i + 1,
           IF i + batch_size <= Len(domain_list) THEN i + batch_size ELSE Len(domain_list))

\* the merge of one batch answer into the running map: a failed batch is
\* skipped.  The variant loses the running map on a failed batch.
MergeBatch_ResetOnFailure(result, ans) ==
    IF ans.kind = "dict" THEN DictUpdate(result, ans.map) ELSE EmptyMap

MergeBatch(result, ans) ==
    IF ans.kind = "dict" THEN DictUpdate(result, ans.map) ELSE result

\* one iteration of the first-pass loop
Pass1Batch ==
    /\ cPhase = "pass1"
    /\ cIdx < Len(cDomains)
    /\ \E ans \in BatchAnswers(Range(Batch(cDomains, cIdx, cBatchSize))) :
          /\ cResult' = MergeBatch(cResult, ans)
          /\ cLog' = Append(cLog, LogOf(ans, Range(Batch(cDomains, cIdx, cBatchSize))))
    /\ cIdx' = cIdx + cBatchSize
    /\ UNCHANGED <<cRawDomains, cImpl, cDomains, cBatchSize, cMaxDomains, cPhase, cOut, pipeVars, retryVars, emptyBody, evidVars>>

\* range(0, len(domain_list), batch_size): the number of first-pass calls
Pass1Calls == (Len(cDomains) + cBatchSize - 1) \div cBatchSize

\* "if not consolidated_result: return None"
AllBatchesFailed(result) == DOMAIN result = {}

\* after the loop: fail, go to the second pass, or return the first pass
Pass1End ==
    /\ cPhase = "pass1"
    /\ cIdx >= Len(cDomains)
    /\ IF AllBatchesFailed(cResult)
       THEN cPhase' = "done" /\ cOut' = NoneResult
       ELSE IF Cardinality(DOMAIN cResult) > 1
            THEN IF Cardinality(DOMAIN cResult) <= SecondPassLimit(cImpl)
                 THEN cPhase' = "pass2" /\ UNCHANGED cOut
                 ELSE IF cImpl = "agent"
                      THEN cPhase' = "done" /\ cOut' = MapResult(cResult)
                      \* more names than the limit: the sub-batched second
                      \* pass of theme_analyzer.py, beyond MaxLabels
                      ELSE cPhase' = "pass2_batched" /\ UNCHANGED cOut
            ELSE cPhase' = "done" /\ cOut' = MapResult(cResult)
    /\ UNCHANGED <<cRawDomains, cImpl, cDomains, cBatchSize, cMaxDomains, cIdx, cResult, cLog, pipeVars, retryVars, emptyBody, evidVars>>

\* consolidate_themes_second_pass: the expansion of a second-pass answer
\* through the first-pass map
\* The variant keeps a name the first-pass map does not have as a label.
SecondPassExpand_KeepUnknown(ans, theme_mapping) ==
    [f \in DOMAIN ans |->
        Flatten([i \in DOMAIN ans[f] |->
                    IF ans[f][i] \in DOMAIN theme_mapping
                    THEN theme_mapping[ans[f][i]] ELSE <<ans[f][i]>>])]

SecondPassExpand(ans, theme_mapping) ==
    [f \in DOMAIN ans |->
        Flatten([i \in DOMAIN ans[f] |->
                    IF ans[f][i] \in DOMAIN theme_mapping
                    THEN theme_mapping[ans[f][i]] ELSE <<>>])]

\* consolidate_themes_second_pass: None on any exception (a non-object
\* answer has no items()), else the expanded mapping
SecondPass(ans, theme_mapping) ==
    IF ans.kind = "dict" THEN MapResult(SecondPassExpand(ans.map, theme_mapping))
    ELSE NoneResult

\* "if final_consolidation: return final_consolidation", else the first pass.
\* The variant returns whatever the second pass gave.
SecondPassOrFallback_NoFallback(second, first) == second

SecondPassOrFallback(second, first) ==
    IF second.ok /\ DOMAIN second.map # {} THEN second ELSE MapResult(first)

Pass2 ==
    /\ cPhase = "pass2"
    /\ \E ans \in BatchAnswers(DOMAIN cResult \cup {StrayName}) :
          /\ cOut' = SecondPassOrFallback(SecondPass(ans, cResult), cResult)
          /\ cLog' = Append(cLog, LogOf(ans, DOMAIN cResult))
    /\ cPhase' = "done"
    /\ UNCHANGED <<cRawDomains, cImpl, cDomains, cBatchSize, cMaxDomains, cIdx, cResult, pipeVars, retryVars, emptyBody, evidVars>>

ConsIdle ==
    /\ cImpl = "agent" /\ cDomains = <<>> /\ cBatchSize = 0 /\ cMaxDomains = 0
    /\ cRawDomains = <<>>
    /\ cIdx = 0 /\ cResult = EmptyMap /\ cPhase = "idle" /\ cOut = NoneResult
    /\ cLog = <<>>

(***************************************************************************)
(* The tables before the run.  Opportunities 1..3 were created by earlier  *)
(* runs and wait in the three statuses the later stages fetch.             *)
(***************************************************************************)
InitLeadStatus ==
    [l \in AllLeads |->
        IF l \in {OtherExtractedLead, StaleExtractedLead}
        THEN "problem_extracted" ELSE "new_raw_lead"]

InitLeadDomain ==
    [l \in AllLeads |->
        IF l \in {OtherExtractedLead, StaleExtractedLead} THEN "d1" ELSE NoDomain]

Opp(status, leads, concepts, docs) ==
    [status |-> status, leads |-> leads, concepts |-> concepts, docs |-> docs]

InitOpps ==
    << Opp("opportunity_defined", {OtherExtractedLead}, FALSE, {}),
       Opp("opportunity_validated", {OtherExtractedLead}, FALSE, {}),
       Opp("solutions_brainstormed", {OtherExtractedLead}, TRUE, {}) >>

ForeignOpps == DOMAIN InitOpps

(***************************************************************************)
(* The thread pool.  A work item is pending until a worker takes it (in    *)
(* submission order), running while its function runs, and then done or    *)
(* raised; a pending item can be cancelled.                                *)
(***************************************************************************)
\* validate_opportunity_with_gemini returned None
NoValidation == [kind |-> "none", recommendation |-> "", scores |-> <<>>]

Task(stg, k) ==
    [stage |-> stg, key |-> k, st |-> "pending", pc |-> "start",
     upd |-> "", dom |-> NoDomain, opp |-> 0, ret |-> 0, res |-> NoValidation,
     txt |-> "", sum |-> ""]

FirstStep(stg) ==
    CASE stg = 1 -> "analyze"
      [] stg = 3 -> "analyze"
      [] stg = 4 -> "validate"
      [] stg = 5 -> "brainstorm"
      [] stg = 6 -> "lead"

Unfinished(t) == t.st \in {"pending", "running"}

Running(i, stg, pc) ==
    /\ i \in DOMAIN tasks
    /\ tasks[i].stage = stg
    /\ tasks[i].st = "running"
    /\ tasks[i].pc = pc

\* the function of a work item returned
Return(t, ret) == [t EXCEPT !.st = "done", !.pc = "end", !.upd = "", !.dom = NoDomain,
                            !.opp = 0, !.ret = ret, !.res = NoValidation,
                            !.txt = "", !.sum = ""]

\* the function of a work item raised
Raise(t) == [t EXCEPT !.st = "raised", !.pc = "end", !.upd = "", !.dom = NoDomain,
                      !.opp = 0, !.ret = 0, !.res = NoValidation,
                      !.txt = "", !.sum = ""]

\* executor.map(fn, items): one work item per element, all submitted at once
Submit(stg, keys) ==
    /\ tasks' = tasks \o [i \in 1..Len(keys) |-> Task(stg, keys[i])]
    /\ fs' = [i \in 1..Len(keys) |-> Len(tasks) + i]
    /\ phase' = "map"

\* a worker thread takes the oldest pending work item
WorkerFree == Cardinality({i \in DOMAIN tasks : tasks[i].st = "running"}) < MaxWorkers

TaskStart ==
    /\ WorkerFree
    /\ \E i \in DOMAIN tasks :
          /\ tasks[i].st = "pending"
          /\ \A j \in 1..(i - 1) : tasks[j].st # "pending"
          /\ tasks' = [tasks EXCEPT ![i].st = "running", ![i].pc = FirstStep(tasks[i].stage)]
    /\ UNCHANGED <<storeVars, mainVars, fs, consVars, retryVars, emptyBody, evidVars>>

\* list(executor.map(...)): the next result, in submission order
MapNext ==
    /\ runState = "running" /\ phase = "map"
    /\ fs # <<>>
    /\ tasks[Head(fs)].st = "done"
    /\ fs' = Tail(fs)
    /\ UNCHANGED <<storeVars, mainVars, tasks, consVars, retryVars, emptyBody, evidVars>>

\* Executor.map's result iterator, when a result raises: the futures not yet
\* read are cancelled (which only a pending one obeys) and the exception
\* leaves list()
CancelRest(ts, rest) ==
    [i \in DOMAIN ts |->
        IF i \in Range(rest) /\ ts[i].st = "pending"
        THEN [ts[i] EXCEPT !.st = "cancelled"] ELSE ts[i]]

MapRaise ==
    /\ runState = "running" /\ phase = "map"
    /\ fs # <<>>
    /\ tasks[Head(fs)].st = "raised"
    /\ tasks' = CancelRest(tasks, Tail(fs))
    /\ fs' = <<>>
    /\ phase' = "raise"
    /\ UNCHANGED <<storeVars, sessionFile, runState, stage, sessionLeadIds,
                   processedLeads, themes, sessionOppIds, consVars, retryVars, emptyBody, evidVars>>

\* every result was read: the rest of the with-block (Stage 3 collects the
\* returned opportunity ids)
MapEnd ==
    /\ runState = "running" /\ phase = "map"
    /\ fs = <<>>
    /\ phase' = "exit"
    /\ sessionOppIds' =
          IF stage = 3
          THEN {tasks[i].ret : i \in {j \in DOMAIN tasks : tasks[j].stage = 3 /\ tasks[j].ret # 0}}
          ELSE sessionOppIds
    /\ UNCHANGED <<storeVars, sessionFile, runState, stage, sessionLeadIds,
                   processedLeads, themes, poolVars, consVars, retryVars, emptyBody, evidVars>>

\* the end of the with-block: shutdown(wait=True) returns when no work item
\* of the executor is pending or running.  The variant is shutdown(wait=False).
ExecutorDrained_NoWait(ts) == TRUE

ExecutorDrained(ts) == \A i \in DOMAIN ts : ~Unfinished(ts[i])

\* where main() goes after the with-block of a stage
ExecutorExit ==
    /\ runState = "running" /\ phase = "exit"
    /\ ExecutorDrained(tasks)
    /\ tasks' = SelectSeq(tasks, Unfinished)
    /\ stage' = IF stage = 1 THEN 1 ELSE stage + 1
    /\ phase' = "fetch"
    /\ themes' = EmptyMap
    /\ processedLeads' = IF stage = 3 THEN <<>> ELSE processedLeads
    /\ UNCHANGED <<storeVars, sessionFile, runState, sessionLeadIds, sessionOppIds,
                   fs, consVars, retryVars, emptyBody, evidVars>>

\* the with-block is left by an exception: it waits the same way, then the
\* exception leaves main()
ExecutorExitRaise ==
    /\ runState = "running" /\ phase = "raise"
    /\ ExecutorDrained(tasks)
    /\ tasks' = SelectSeq(tasks, Unfinished)
    /\ runState' = "crashed"
    /\ UNCHANGED <<storeVars, sessionFile, stage, phase, sessionLeadIds, processedLeads,
                   themes, sessionOppIds, fs, consVars, retryVars, emptyBody, evidVars>>

(***************************************************************************)
(* main(): the start of a run and Stage 1.                                 *)
(***************************************************************************)
\* get_current_session_id, and the locals of main()
\* The variant returns an id whether or not the file is there.
GetCurrentSessionId_Default(file) == TRUE

\* get_current_session_id() returned an id: the file is there and names a
\* session
GetCurrentSessionId(file) == file

StartRun ==
    /\ runState = "idle"
    /\ IF GetCurrentSessionId(sessionFile)
       THEN /\ runState' = "running"
            /\ stage' = 1
            /\ phase' = "fetch"
       ELSE /\ runState' = "no_session"
            /\ stage' = 0
            /\ phase' = "fetch"
    /\ sessionLeadIds' = {}
    /\ sessionOppIds' = {}
    /\ processedLeads' = <<>>
    /\ themes' = EmptyMap
    /\ UNCHANGED <<storeVars, sessionFile, poolVars, consVars, retryVars, emptyBody, evidVars>>

\* get_new_leads(supabase, session_id): the rows of the session in
\* new_raw_lead, at most a page
GetNewLeads ==
    Take(SortedSeq({l \in AllLeads : /\ leadStatus[l] = "new_raw_lead"
                                     /\ LeadSession(l) = "this"}), LEAD_PAGE_SIZE)

\* one turn of the Stage 1 loop up to the fan-out; a failed fetch is an
\* empty batch
Stage1Fetch ==
    /\ runState = "running" /\ stage = 1 /\ phase = "fetch"
    /\ \E fetched \in {TRUE, FALSE} :
          LET new_leads == IF fetched THEN GetNewLeads ELSE <<>> IN
          IF new_leads = <<>>
          THEN /\ stage' = 2
               /\ UNCHANGED <<phase, sessionLeadIds, poolVars>>
          ELSE /\ sessionLeadIds' = sessionLeadIds \cup Range(new_leads)
               /\ Submit(1, new_leads)
               /\ UNCHANGED stage
    /\ UNCHANGED <<storeVars, sessionFile, runState, processedLeads, themes,
                   sessionOppIds, consVars, retryVars, emptyBody, evidVars>>

(***************************************************************************)
(* process_and_update_lead.                                                *)
(***************************************************************************)
\* An outcome of an extraction call: what the provider answered (txt: an
\* object, text that is not JSON, an error, the rate limit), what the
\* function did with it (kind), and the domain and summary of the result.
Outcome(kind, txt, dom, summary) == [kind |-> kind, txt |-> txt, dom |-> dom, sum |-> summary]

ProviderSummary == "Late invoices"

\* the dict analyze_lead_with_enhanced_extraction returns on a JSON parse
\* error (source_url apart)
FallbackResult ==
    [problem_summary |-> "Error parsing response",
     problem_domain |-> FallbackDomain,
     supporting_quotes |-> <<>>,
     urgency_level |-> "Low",
     financial_indicators |-> [amounts_mentioned |-> <<>>, willing_to_pay |-> "Unknown"],
     saas_potential_flag |-> "Uncertain"]

\* analyze_lead_with_enhanced_extraction behind its retry wrapper: the model
\* call is outside the try, so its exception leaves the function (a rate
\* limit after the last retry, any other error at once); unparsable text
\* gives the fallback record; a parsed object is returned, with or without
\* a problem_domain.
EnhancedOutcomes ==
    {Outcome("raise", t, NoDomain, "") : t \in {"error", "rate_limited"}}
    \cup {Outcome("result", "bad_json", FallbackResult.problem_domain,
                  FallbackResult.problem_summary)}
    \cup {Outcome("result", "ok", d, ProviderSummary) : d \in ProviderDomains \cup {NoDomain}}

\* analyze_lead_with_gemini: every failure is "no result"
BaseOutcomes ==
    {Outcome("none", t, NoDomain, "") : t \in {"error", "rate_limited", "bad_json"}}
    \cup {Outcome("result", "ok", d, ProviderSummary) : d \in ProviderDomains \cup {NoDomain}}

\* The variant takes the enhanced path for every lead.
UsesEnhanced_AnyLead(l) == USE_ENHANCED_EXTRACTION

UsesEnhanced(l) == USE_ENHANCED_EXTRACTION /\ HasRedditIdAndPermalink(l)

\* analyze_lead_with_gemini on an empty text: None, without a model call
EmptyTextOutcomes == {Outcome("none", "no_call", NoDomain, "")}

ExtractionOutcomes(l) ==
    IF UsesEnhanced(l) THEN EnhancedOutcomes
    ELSE IF l \in emptyBody THEN EmptyTextOutcomes
    ELSE BaseOutcomes

\* the extraction call and the choice of update_data
Task1Analyze(i) ==
    /\ Running(i, 1, "analyze")
    /\ \E out \in ExtractionOutcomes(tasks[i].key) :
          tasks' = [tasks EXCEPT ![i] =
                        IF out.kind = "raise" THEN Raise(@)
                        ELSE IF out.kind = "result"
                        THEN [@ EXCEPT !.pc = "write", !.upd = "problem_extracted",
                                       !.dom = out.dom, !.txt = out.txt, !.sum = out.sum]
                        ELSE [@ EXCEPT !.pc = "write", !.txt = out.txt,
                                       !.upd = "problem_extraction_failed"]]
    /\ UNCHANGED <<storeVars, mainVars, fs, consVars, retryVars, emptyBody, evidVars>>

\* the status write; its exception is logged and dropped
Task1Write(i) ==
    /\ Running(i, 1, "write")
    /\ LET t == tasks[i] IN
       \E written \in {TRUE, FALSE} :
          IF written
          THEN /\ leadStatus' = [leadStatus EXCEPT ![t.key] = t.upd]
               /\ leadDomain' = [leadDomain EXCEPT ![t.key] =
                                    IF t.upd = "problem_extracted" THEN t.dom ELSE @]
               /\ tasks' = [tasks EXCEPT ![i] = Return(@, 0)]
          ELSE /\ UNCHANGED <<leadStatus, leadDomain>>
               /\ tasks' = [tasks EXCEPT ![i] = Return(@, 0)]
    /\ UNCHANGED <<opps, mainVars, fs, consVars, retryVars, emptyBody, evidVars>>

(***************************************************************************)
(* Stage 2 and 2.5: grouping by raw domain, and the call of the            *)
(* consolidator (the steps of the call are ConsEnter .. Pass2 above).      *)
(***************************************************************************)
\* get_processed_leads_for_theming_by_session.  The variant without
\* .in_('id', ...) is what get_processed_leads_for_theming selects.
GetProcessedLeadsForThemingBySession_Unscoped(ids) ==
    SortedSeq({l \in AllLeads : leadStatus[l] = "problem_extracted"})

\* The variant selects by the session of the row, not by the ids fetched.
GetProcessedLeadsForThemingBySession_WholeSession(ids) ==
    SortedSeq({l \in AllLeads : LeadSession(l) = "this" /\ leadStatus[l] = "problem_extracted"})

GetProcessedLeadsForThemingBySession(ids) ==
    SortedSeq({l \in ids : leadStatus[l] = "problem_extracted"})

RECURSIVE Dedupe(_)
Dedupe(s) ==
    IF s = <<>> THEN <<>>
    ELSE LET r == Dedupe(SubSeq(s, 1, Len(s) - 1)) IN
         IF s[Len(s)] \in Range(r) THEN r ELSE Append(r, s[Len(s)])

\* leads_by_domain[d]; a lead without a domain is in no group
LeadsByDomain(processed, d) ==
    SelectSeq(processed, LAMBDA l : leadDomain[l] = d /\ d # NoDomain)

\* list(leads_by_domain.keys()): the domains in order of first occurrence
RawDomains(processed) ==
    Dedupe(SelectSeq([i \in DOMAIN processed |-> leadDomain[processed[i]]],
                     LAMBDA d : d # NoDomain))

Stage2Fetch ==
    /\ runState = "running" /\ stage = 2 /\ phase = "fetch"
    /\ \E fetched \in {TRUE, FALSE} :
          /\ processedLeads' =
                IF sessionLeadIds # {} /\ fetched
                THEN GetProcessedLeadsForThemingBySession(sessionLeadIds) ELSE <<>>
          /\ cDomains' = RawDomains(processedLeads')
          /\ cRawDomains' = RawDomains(processedLeads')
    /\ cImpl' = "agent"
    /\ cBatchSize' = THEME_BATCH_SIZE
    /\ cMaxDomains' = MAX_DOMAINS_TO_PROCESS
    /\ cPhase' = "call"
    /\ phase' = "consolidate"
    /\ UNCHANGED <<storeVars, sessionFile, runState, stage, sessionLeadIds, themes,
                   sessionOppIds, poolVars, cIdx, cResult, cOut, cLog, retryVars, emptyBody, evidVars>>

\* final_themes[theme]: the leads of the theme's domains, list by list
ThemeLeads(map, processed, theme) ==
    Flatten([i \in DOMAIN map[theme] |-> LeadsByDomain(processed, map[theme][i])])

\* themes_to_process, as the indexes of its keys in ThemeOrder
EnoughLeads(n) == n >= MIN_LEADS_FOR_THEME

ThemesToProcess(map, processed) ==
    SelectSeq([i \in DOMAIN ThemeOrder |-> i],
              LAMBDA i : /\ ThemeOrder[i] \in DOMAIN map
                         /\ EnoughLeads(Len(ThemeLeads(map, processed, ThemeOrder[i]))))

\* the consolidator returned: exit on failure, else Stage 3's fan-out
Stage25 ==
    /\ runState = "running" /\ stage = 2 /\ phase = "consolidate"
    /\ cPhase = "done"
    /\ IF ~cOut.ok
       THEN /\ runState' = "aborted"
            /\ processedLeads' = <<>>
            /\ UNCHANGED <<stage, phase, themes, poolVars>>
       ELSE LET todo == ThemesToProcess(cOut.map, processedLeads) IN
            /\ UNCHANGED <<runState, processedLeads>>
            /\ IF todo = <<>>
               THEN /\ stage' = 4
                    /\ phase' = "fetch"
                    /\ UNCHANGED <<themes, poolVars>>
               ELSE /\ stage' = 3
                    /\ themes' = cOut.map
                    /\ Submit(3, todo)
    /\ cImpl' = "agent" /\ cDomains' = <<>> /\ cBatchSize' = 0 /\ cMaxDomains' = 0
    /\ cRawDomains' = <<>>
    /\ cIdx' = 0 /\ cResult' = EmptyMap /\ cPhase' = "idle" /\ cOut' = NoneResult
    /\ cLog' = <<>>
    /\ UNCHANGED <<storeVars, sessionFile, sessionLeadIds, sessionOppIds, retryVars, emptyBody, evidVars>>

(***************************************************************************)
(* find_and_create_themed_opportunities.                                   *)
(***************************************************************************)
TaskLeads(t) == ThemeLeads(themes, processedLeads, ThemeOrder[t.key])

\* raw_leads.update({"status": s}).in_('id', ids)
SetLeadStatus(ids, s) == [l \in AllLeads |-> IF l \in ids THEN s ELSE leadStatus[l]]

\* the two model calls: a failed summary returns at once, a failed
\* identification marks the leads
Task3Analyze(i) ==
    /\ Running(i, 3, "analyze")
    /\ \E out \in {"summary_failed", "identify_failed", "identified"} :
          tasks' = [tasks EXCEPT ![i] =
                        IF out = "summary_failed" THEN Return(@, 0)
                        ELSE IF out = "identify_failed" THEN [@ EXCEPT !.pc = "mark_failed"]
                        ELSE [@ EXCEPT !.pc = "insert"]]
    /\ UNCHANGED <<storeVars, mainVars, fs, consVars, retryVars, emptyBody, evidVars>>

\* opportunities.insert: a row, no row, or an exception
Task3Insert(i) ==
    /\ Running(i, 3, "insert")
    /\ \E out \in {"row", "no_row", "raise"} :
          IF out = "row"
          THEN /\ opps' = Append(opps, Opp("opportunity_defined", Range(TaskLeads(tasks[i])),
                                           FALSE, {}))
               /\ tasks' = [tasks EXCEPT ![i] = [@ EXCEPT !.pc = "update",
                                                          !.opp = Len(opps) + 1]]
          ELSE /\ UNCHANGED opps
               /\ tasks' = [tasks EXCEPT ![i] =
                               IF out = "no_row" THEN Return(@, 0)
                               ELSE [@ EXCEPT !.pc = "mark_failed"]]
    /\ UNCHANGED <<leadStatus, leadDomain, mainVars, fs, consVars, retryVars, emptyBody, evidVars>>

\* the member leads become opportunity_created
Task3Update(i) ==
    /\ Running(i, 3, "update")
    /\ \E written \in {TRUE, FALSE} :
          IF written
          THEN /\ leadStatus' = SetLeadStatus(Range(TaskLeads(tasks[i])), "opportunity_created")
               /\ tasks' = [tasks EXCEPT ![i] = Return(@, @.opp)]
          ELSE /\ UNCHANGED leadStatus
               /\ tasks' = [tasks EXCEPT ![i] = [@ EXCEPT !.pc = "mark_failed"]]
    /\ UNCHANGED <<leadDomain, opps, mainVars, fs, consVars, retryVars, emptyBody, evidVars>>

\* the failure branches: the member leads become thematic_analysis_failed;
\* this write is not guarded
Task3MarkFailed(i) ==
    /\ Running(i, 3, "mark_failed")
    /\ \E written \in {TRUE, FALSE} :
          IF written
          THEN /\ leadStatus' = SetLeadStatus(Range(TaskLeads(tasks[i])),
                                              "thematic_analysis_failed")
               /\ tasks' = [tasks EXCEPT ![i] = Return(@, 0)]
          ELSE /\ UNCHANGED leadStatus
               /\ tasks' = [tasks EXCEPT ![i] = Raise(@)]
    /\ UNCHANGED <<leadDomain, opps, mainVars, fs, consVars, retryVars, emptyBody, evidVars>>

(***************************************************************************)
(* Stages 4 to 6: the session-scoped fetches.                              *)
(***************************************************************************)
FetchOpps(ids, status) == SortedSeq({o \in ids : opps[o].status = status})

\* get_opportunities_for_validation_by_session
GetOpportunitiesForValidationBySession(ids) == FetchOpps(ids, "opportunity_defined")

\* get_validated_opportunities_by_session.  The variant without
\* .eq('status', ...) returns every row of the ids.
GetValidatedOpportunitiesBySession_AnyStatus(ids) == SortedSeq(ids)

GetValidatedOpportunitiesBySession(ids) == FetchOpps(ids, "opportunity_validated")

\* get_opportunities_for_planning_by_session
GetOpportunitiesForPlanningBySession(ids) == FetchOpps(ids, "solutions_brainstormed")

\* a stage of main() up to its fan-out: no ids or no rows skips the stage
StageFetch(stg, rows) ==
    /\ runState = "running" /\ stage = stg /\ phase = "fetch"
    /\ \E fetched \in {TRUE, FALSE} :
          LET batch == IF sessionOppIds # {} /\ fetched THEN rows ELSE <<>> IN
          IF batch = <<>>
          THEN /\ stage' = stg + 1
               /\ UNCHANGED <<phase, poolVars>>
          ELSE /\ Submit(stg, batch)
               /\ UNCHANGED stage
    /\ UNCHANGED <<storeVars, sessionFile, runState, sessionLeadIds, processedLeads,
                   themes, sessionOppIds, consVars, retryVars, emptyBody, evidVars>>

Stage4Fetch == StageFetch(4, GetOpportunitiesForValidationBySession(sessionOppIds))

Stage5Fetch == StageFetch(5, GetValidatedOpportunitiesBySession(sessionOppIds))

Stage6Fetch == StageFetch(6, GetOpportunitiesForPlanningBySession(sessionOppIds))

\* the end of main(): the session file is removed (a failure to remove it is
\* passed over)
Finish ==
    /\ runState = "running" /\ stage = 7
    /\ runState' = "complete"
    /\ \E removed \in {TRUE, FALSE} : sessionFile' = ~removed
    /\ UNCHANGED <<storeVars, stage, phase, sessionLeadIds, processedLeads, themes,
                   sessionOppIds, poolVars, consVars, retryVars, emptyBody, evidVars>>

SetOppStatus(o, s) == [opps EXCEPT ![o].status = s]

(***************************************************************************)
(* validate_and_update_opportunity.                                        *)
(***************************************************************************)
\* what validate_opportunity_with_gemini returns: None, or the dict of the
\* provider with the three scores (monetization, market size, feasibility)
\* and a recommendation, which may be missing
ScoreTriples == {<<9, 2, 9>>, <<2, 9, 2>>}

ValidationResults ==
    {NoValidation} \cup
    [kind : {"dict"}, recommendation : {"Go", "No-Go", "absent"}, scores : ScoreTriples]

\* validation_result.get("recommendation", "No-Go")
Recommendation(result) ==
    IF result.recommendation = "absent" THEN "No-Go" ELSE result.recommendation

\* The variant decides by the three scores.
ValidationStatus_ByScores(result) ==
    IF result.kind = "none" THEN "validation_failed"
    ELSE IF \A k \in 1..3 : result.scores[k] >= 5
         THEN "opportunity_validated" ELSE "opportunity_rejected"

\* the status for a validation result: the recommendation decides
ValidationStatus(result) ==
    IF result.kind = "none" THEN "validation_failed"
    ELSE IF Recommendation(result) = "Go"
         THEN "opportunity_validated" ELSE "opportunity_rejected"

Task4Validate(i) ==
    /\ Running(i, 4, "validate")
    /\ \E result \in ValidationResults :
          tasks' = [tasks EXCEPT ![i] = [@ EXCEPT !.pc = "write",
                                                  !.res = result,
                                                  !.upd = ValidationStatus(result)]]
    /\ UNCHANGED <<storeVars, mainVars, fs, consVars, retryVars, emptyBody, evidVars>>

\* the status write; its exception is logged and dropped
Task4Write(i) ==
    /\ Running(i, 4, "write")
    /\ \E written \in {TRUE, FALSE} :
          /\ opps' = IF written THEN SetOppStatus(tasks[i].key, tasks[i].upd) ELSE opps
          /\ tasks' = [tasks EXCEPT ![i] = Return(@, 0)]
    /\ UNCHANGED <<leadStatus, leadDomain, mainVars, fs, consVars, retryVars, emptyBody, evidVars>>

(***************************************************************************)
(* brainstorm_and_store_solutions.                                         *)
(***************************************************************************)
Task5Brainstorm(i) ==
    /\ Running(i, 5, "brainstorm")
    /\ \E concepts \in {"none", "concepts"} :
          tasks' = [tasks EXCEPT ![i] =
                        [@ EXCEPT !.pc = IF concepts = "none" THEN "mark_failed" ELSE "insert"]]
    /\ UNCHANGED <<storeVars, mainVars, fs, consVars, retryVars, emptyBody, evidVars>>

\* solution_concepts.insert
Task5Insert(i) ==
    /\ Running(i, 5, "insert")
    /\ \E inserted \in {TRUE, FALSE} :
          IF inserted
          THEN /\ opps' = [opps EXCEPT ![tasks[i].key].concepts = TRUE]
               /\ tasks' = [tasks EXCEPT ![i] = [@ EXCEPT !.pc = "update"]]
          ELSE /\ UNCHANGED opps
               /\ tasks' = [tasks EXCEPT ![i] = [@ EXCEPT !.pc = "mark_failed"]]
    /\ UNCHANGED <<leadStatus, leadDomain, mainVars, fs, consVars, retryVars, emptyBody, evidVars>>

\* the status becomes solutions_brainstormed
Task5Update(i) ==
    /\ Running(i, 5, "update")
    /\ \E written \in {TRUE, FALSE} :
          IF written
          THEN /\ opps' = SetOppStatus(tasks[i].key, "solutions_brainstormed")
               /\ tasks' = [tasks EXCEPT ![i] = Return(@, 0)]
          ELSE /\ UNCHANGED opps
               /\ tasks' = [tasks EXCEPT ![i] = [@ EXCEPT !.pc = "mark_failed"]]
    /\ UNCHANGED <<leadStatus, leadDomain, mainVars, fs, consVars, retryVars, emptyBody, evidVars>>

\* the failure branches: solution_brainstorm_failed; this write is not guarded
Task5MarkFailed(i) ==
    /\ Running(i, 5, "mark_failed")
    /\ \E written \in {TRUE, FALSE} :
          IF written
          THEN /\ opps' = SetOppStatus(tasks[i].key, "solution_brainstorm_failed")
               /\ tasks' = [tasks EXCEPT ![i] = Return(@, 0)]
          ELSE /\ UNCHANGED opps
               /\ tasks' = [tasks EXCEPT ![i] = Raise(@)]
    /\ UNCHANGED <<leadStatus, leadDomain, mainVars, fs, consVars, retryVars, emptyBody, evidVars>>

(***************************************************************************)
(* generate_planning_documents.                                            *)
(***************************************************************************)
\* the concept test and the read of the first member lead's summary (not
\* guarded: its exception leaves the function)
Task6Lead(i) ==
    /\ Running(i, 6, "lead")
    /\ IF ~opps[tasks[i].key].concepts
       THEN tasks' = [tasks EXCEPT ![i] = Return(@, 0)]
       ELSE \E read \in {"raise", "no_summary", "summary"} :
               tasks' = [tasks EXCEPT ![i] =
                            IF read = "raise" THEN Raise(@)
                            ELSE IF read = "no_summary" THEN Return(@, 0)
                            ELSE [@ EXCEPT !.pc = "BRD"]]
    /\ UNCHANGED <<storeVars, mainVars, fs, consVars, retryVars, emptyBody, evidVars>>

\* The variant goes from the BRD straight to the Agile plan.
NextDocument_SkipPRD(doc) == IF doc = "BRD" THEN "AGILE_PLAN" ELSE "final"

NextDocument(doc) == IF doc = "BRD" THEN "PRD" ELSE IF doc = "PRD" THEN "AGILE_PLAN" ELSE "final"

\* one document: drafted, saved to a file and inserted, or the function returns
Task6Document(i, doc) ==
    /\ Running(i, 6, doc)
    /\ \E out \in {"draft_failed", "save_failed", "stored"} :
          IF out = "stored"
          THEN /\ opps' = [opps EXCEPT ![tasks[i].key].docs = @ \cup {doc}]
               /\ tasks' = [tasks EXCEPT ![i] = [@ EXCEPT !.pc = NextDocument(doc)]]
          ELSE /\ UNCHANGED opps
               /\ tasks' = [tasks EXCEPT ![i] = Return(@, 0)]
    /\ UNCHANGED <<leadStatus, leadDomain, mainVars, fs, consVars, retryVars, emptyBody, evidVars>>

\* the final status write, in the try of the Agile plan
Task6Final(i) ==
    /\ Running(i, 6, "final")
    /\ \E written \in {TRUE, FALSE} :
          /\ opps' = IF written
                     THEN SetOppStatus(tasks[i].key, "planning_documents_generated")
                     ELSE opps
          /\ tasks' = [tasks EXCEPT ![i] = Return(@, 0)]
    /\ UNCHANGED <<leadStatus, leadDomain, mainVars, fs, consVars, retryVars, emptyBody, evidVars>>

(***************************************************************************)
(* retry_on_rate_limit (gemini_core.py and gemini_interaction_agent.py     *)
(* alike), as a step machine: one step per turn of the while loop.  The    *)
(* wrapped function has one of two shapes.  "enhanced" is                  *)
(* analyze_lead_with_enhanced_extraction: the model call is outside its    *)
(* try, only a JSON parse error is caught.  "base" is                      *)
(* analyze_lead_with_gemini and the functions built like it (summary,      *)
(* identification, validation, brainstorming): an input test, then the     *)
(* model call inside a try that catches every exception.                   *)
(***************************************************************************)
ProviderAnswers == {"ok", "rate_limited", "error", "bad_json"}

\* what one call of the wrapped function does with the provider's answer:
\* "parsed" and "fallback" are returned values, "none" is a returned None,
\* "ResourceExhausted" and "Exception" are raised
\* The variant does not catch the JSON parse error of the enhanced path.
FuncOutcome_ParseErrorEscapes(func, answer) ==
    IF func = "enhanced"
    THEN CASE answer = "ok" -> "parsed"
           [] answer = "bad_json" -> "Exception"
           [] answer = "rate_limited" -> "ResourceExhausted"
           [] answer = "error" -> "Exception"
    ELSE IF answer = "ok" THEN "parsed" ELSE "none"

FuncOutcome(func, answer) ==
    IF func = "enhanced"
    THEN CASE answer = "ok" -> "parsed"
           [] answer = "bad_json" -> "fallback"
           [] answer = "rate_limited" -> "ResourceExhausted"
           [] answer = "error" -> "Exception"
    ELSE IF answer = "ok" THEN "parsed" ELSE "none"

\* "if not lead_text or not lead_text.strip(): return None", before any call
SkipsProvider(func, empty) == func = "base" /\ empty

RetryIdle ==
    /\ rFunc = "base" /\ rEmpty = FALSE /\ max_retries = 0 /\ initial_delay = 0
    /\ retries = 0 /\ delay = 0 /\ rCalls = <<>> /\ rSleeps = <<>>
    /\ rPhase = "idle" /\ rOut = ""

\* wrapper(): retries = 0; delay = initial_delay
RetryEnter ==
    /\ rPhase = "call"
    /\ retries' = 0
    /\ delay' = initial_delay
    /\ rPhase' = "loop"
    /\ UNCHANGED <<rFunc, rEmpty, max_retries, initial_delay, rCalls, rSleeps, rOut,
                   pipeVars, consVars, emptyBody, evidVars>>

\* "delay *= 2".  The variant keeps the delay.
NextDelay_Constant(d) == d

NextDelay(d) == d * 2

\* "if retries >= max_retries: raise e".  The variants give up one attempt
\* early, one attempt late (after one more sleep), and never.
RetriesExhausted_OneEarly(n, max) == n + 1 >= max

RetriesExhausted_OneLate(n, max) == n > max

RetriesExhausted_Never(n, max) == FALSE

RetriesExhausted(n, max) == n >= max

\* one turn of "while retries < max_retries": call the function; a returned
\* value and an exception other than ResourceExhausted leave the wrapper;
\* ResourceExhausted counts a retry and either is re-raised or sleeps
RetryAttempt ==
    /\ rPhase = "loop"
    /\ retries < max_retries
    /\ IF SkipsProvider(rFunc, rEmpty)
       THEN /\ rOut' = "none"
            /\ rPhase' = "done"
            /\ UNCHANGED <<retries, delay, rCalls, rSleeps>>
       ELSE \E answer \in ProviderAnswers :
               LET out == FuncOutcome(rFunc, answer) IN
               /\ rCalls' = Append(rCalls, answer)
               /\ IF out # "ResourceExhausted"
                  THEN /\ rOut' = out
                       /\ rPhase' = "done"
                       /\ UNCHANGED <<retries, delay, rSleeps>>
                  ELSE /\ retries' = retries + 1
                       /\ IF RetriesExhausted(retries + 1, max_retries)
                          THEN /\ rOut' = "ResourceExhausted"
                               /\ rPhase' = "done"
                               /\ UNCHANGED <<delay, rSleeps>>
                          ELSE /\ rSleeps' = Append(rSleeps, delay)
                               /\ delay' = NextDelay(delay)
                               /\ UNCHANGED <<rOut, rPhase>>
    /\ UNCHANGED <<rFunc, rEmpty, max_retries, initial_delay, pipeVars, consVars, emptyBody, evidVars>>

\* the loop condition is false: "return None"
RetryLoopEnd ==
    /\ rPhase = "loop"
    /\ retries >= max_retries
    /\ rOut' = "none"
    /\ rPhase' = "done"
    /\ UNCHANGED <<rFunc, rEmpty, max_retries, initial_delay, retries, delay, rCalls,
                   rSleeps, pipeVars, consVars, emptyBody, evidVars>>

(***************************************************************************)
(* aggregate_evidence_for_opportunity (utils/evidence_aggregator.py and    *)
(* gemini_interaction_agent.py alike), as a step machine: one step per     *)
(* turn of the loop over leads_data, and one for the percentage.  A dict   *)
(* with an open set of keys is a function from the set of its keys.  A key *)
(* that is missing from an input dict is the value Absent.  Percentages    *)
(* are counted in tenths of a percent.                                     *)
(***************************************************************************)
Absent == "absent"

\* d.get(key, default)
Get(v, default) == IF v = Absent THEN default ELSE v

\* str.lower(), on the summaries of the model
Lower(s) ==
    CASE s = "No clear problem" -> "no clear problem"
      [] s = "NO CLEAR PROBLEM" -> "no clear problem"
      [] OTHER -> s

\* The variant compares the summary as it is written.
IsSentinel_CaseSensitive(analysis) ==
    Get(analysis.problem_summary, "") = "No clear problem"

\* analysis.get('problem_summary', '').lower() == 'no clear problem'
IsSentinel(analysis) ==
    Lower(Get(analysis.problem_summary, "")) = "no clear problem"

Competitors == <<"upwork", "toptal", "fiverr", "freelancer", "guru", "99designs">>

\* the dict before the loop
NewEvidence(leads_data) ==
    [total_posts_analyzed |-> Len(leads_data),
     supporting_quotes |-> <<>>,
     amounts_mentioned |-> <<>>,
     willing_to_pay_counts |-> [k \in {"Yes", "No", "Maybe", "Unknown"} |-> 0],
     total_cost_of_problems |-> <<>>,
     urgency_distribution |-> [k \in {"High", "Medium", "Low"} |-> 0],
     competitor_mentions |-> [k \in {} |-> 0],
     pain_point_frequency |-> 0,
     source_links |-> <<>>,
     source_posts |-> <<>>]

\* The variant starts the histogram again when it meets a new key.
Increment_ResetOnNew(d, k) ==
    IF k \in DOMAIN d
    THEN [d EXCEPT ![k] = @ + 1]
    ELSE [j \in DOMAIN d \cup {k} |-> IF j = k THEN 1 ELSE 0]

\* The variant counts the keys the histogram already has, and no other.
Increment_KnownOnly(d, k) ==
    IF k \in DOMAIN d THEN [d EXCEPT ![k] = @ + 1] ELSE d

\* "if k not in d: d[k] = 0" and "d[k] += 1"
Increment(d, k) ==
    [j \in DOMAIN d \cup {k} |-> IF j = k THEN (IF k \in DOMAIN d THEN d[k] + 1 ELSE 1)
                                          ELSE d[j]]

\* the entry of source_posts for a lead
SourcePost(lead) ==
    [permalink |-> lead.permalink,
     problem_summary |-> Get(lead.analysis.problem_summary, ""),
     urgency_level |-> Get(lead.analysis.urgency_level, "Low"),
     financial_impact |-> lead.analysis.financial_indicators.cost_of_problem,
     supporting_quotes |-> lead.analysis.supporting_quotes]

\* the entries of supporting_quotes for a lead: its quotes that are dicts
QuoteEntries(lead) ==
    LET dicts == SelectSeq(lead.analysis.supporting_quotes, LAMBDA q : q.isdict)
    IN  [i \in DOMAIN dicts |-> [text |-> dicts[i].text, source |-> lead.permalink]]

\* "if financial:" and the three updates under it
WithFinancial(ev, financial) ==
    IF financial.empty THEN ev
    ELSE [ev EXCEPT
            !.amounts_mentioned = @ \o financial.amounts_mentioned,
            !.willing_to_pay_counts = Increment(@, Get(financial.willing_to_pay, "Unknown")),
            !.total_cost_of_problems =
                IF financial.cost_of_problem # "" THEN Append(@, financial.cost_of_problem)
                ELSE @]

\* the loop over competitors: "if comp in text"
RECURSIVE WithCompetitors(_, _, _)
WithCompetitors(mentions, content, n) ==
    IF n > Len(Competitors) THEN mentions
    ELSE WithCompetitors(IF Competitors[n] \in content
                         THEN Increment(mentions, Competitors[n]) ELSE mentions,
                         content, n + 1)

\* one turn of the loop over leads_data
FoldLead(ev, lead) ==
    IF IsSentinel(lead.analysis) THEN ev
    ELSE LET counted == [ev EXCEPT !.pain_point_frequency = @ + 1]
             posted == IF lead.permalink # ""
                       THEN [counted EXCEPT !.source_posts = Append(@, SourcePost(lead))]
                       ELSE counted
             quoted == [posted EXCEPT !.supporting_quotes = @ \o QuoteEntries(lead)]
             paid == WithFinancial(quoted, lead.analysis.financial_indicators)
             urged == [paid EXCEPT !.urgency_distribution =
                                       Increment(@, Get(lead.analysis.urgency_level, "Low"))]
             linked == IF lead.permalink # ""
                       THEN [urged EXCEPT !.source_links = Append(@, lead.permalink)]
                       ELSE urged
         IN  [linked EXCEPT !.competitor_mentions = WithCompetitors(@, lead.content, 1)]

\* The percentage is computed in binary floating point.  A float is a
\* string of bits, most significant first, of at most MantissaBits
\* significant bits, and the number frac of them that follow the binary
\* point: the value is m / 2^frac.  0.0 is the empty string.
MantissaBits == 53

Zeros(n) == [i \in 1..n |-> 0]

RECURSIVE StripZeros(_)
StripZeros(b) == IF b # <<>> /\ Head(b) = 0 THEN StripZeros(Tail(b)) ELSE b

\* the number a string of bits writes, for a string short enough for an int
RECURSIVE BitsToNat(_)
BitsToNat(b) ==
    IF b = <<>> THEN 0
    ELSE IF Len(b) = 1 THEN b[1]
    ELSE LET h == Len(b) \div 2
         IN  BitsToNat(SubSeq(b, 1, h)) * 2^(Len(b) - h) + BitsToNat(SubSeq(b, h + 1, Len(b)))

\* the k bits that write x
NatToBits(x, k) == [i \in 1..k |-> (x \div 2^(k - i)) % 2]

\* a + b + c for two strings of one length and a carry c, ChunkBits bits
\* at a time from the right
ChunkBits == 15

RECURSIVE AddCarry(_, _, _)
AddCarry(a, b, c) ==
    IF a = <<>> THEN <<c>>
    ELSE LET n == Len(a)
             k == IF n < ChunkBits THEN n ELSE ChunkBits
             s == BitsToNat(SubSeq(a, n - k + 1, n)) + BitsToNat(SubSeq(b, n - k + 1, n)) + c
         IN  AddCarry(SubSeq(a, 1, n - k), SubSeq(b, 1, n - k), s \div 2^k)
                 \o NatToBits(s % 2^k, k)

BitsAdd(a, b) ==
    LET n == IF Len(a) > Len(b) THEN Len(a) ELSE Len(b)
    IN  StripZeros(AddCarry(Zeros(n - Len(a)) \o a, Zeros(n - Len(b)) \o b, 0))

ShiftLeft(b, n) == b \o Zeros(n)

\* the result of an operation: the exact result rounded to MantissaBits
\* significant bits, to the nearest, a tie to the even one
RoundNearestEven(bits, frac) ==
    IF Len(bits) <= MantissaBits THEN [m |-> bits, frac |-> frac]
    ELSE LET d == Len(bits) - MantissaBits
             kept == SubSeq(bits, 1, MantissaBits)
             rest == SubSeq(bits, MantissaBits + 1, Len(bits))
             sticky == \E i \in 2..d : rest[i] = 1
             up == rest[1] = 1 /\ (sticky \/ kept[MantissaBits] = 1)
         IN  [m |-> IF up THEN BitsAdd(kept, <<1>>) ELSE kept, frac |-> frac - d]

\* the smallest k with f * 2^k >= t
RECURSIVE LeadingShift(_, _)
LeadingShift(f, t) == IF f >= t THEN 0 ELSE 1 + LeadingShift(2 * f, t)

\* n more bits of the binary expansion of r / t, for r < t, and the
\* remainder after them, ChunkBits bits at a time
RECURSIVE QuotientBits(_, _, _)
QuotientBits(r, t, n) ==
    IF n = 0 THEN [bits |-> <<>>, rem |-> r]
    ELSE LET k == IF n < ChunkBits THEN n ELSE ChunkBits
             next == QuotientBits((r * 2^k) % t, t, n - k)
         IN  [bits |-> NatToBits((r * 2^k) \div t, k) \o next.bits, rem |-> next.rem]

\* f / t of two ints, 0 <= f <= t and t > 0: the quotient, rounded once
TrueDivide(f, t) ==
    IF f = 0 THEN [m |-> <<>>, frac |-> 0]
    ELSE LET k == LeadingShift(f, t)
             q == QuotientBits(f * 2^k - t, t, MantissaBits - 1)
             bits == <<1>> \o q.bits
             up == 2 * q.rem > t \/ (2 * q.rem = t /\ bits[MantissaBits] = 1)
         IN  [m |-> IF up THEN BitsAdd(bits, <<1>>) ELSE bits,
              frac |-> MantissaBits - 1 + k]

\* x * 100: 100 is 64 + 32 + 4
FloatTimes100(x) ==
    IF x.m = <<>> THEN x
    ELSE RoundNearestEven(BitsAdd(BitsAdd(ShiftLeft(x.m, 6), ShiftLeft(x.m, 5)),
                                  ShiftLeft(x.m, 2)),
                          x.frac)

\* round(y, 1), in tenths: the value of the float to the nearest tenth, a
\* tie to the even one
RoundOneDecimal(y) ==
    IF y.m = <<>> THEN 0
    ELSE LET q == BitsAdd(ShiftLeft(y.m, 3), ShiftLeft(y.m, 1))
             padded == Zeros(y.frac + 1 - Len(q)) \o q
             w == Len(padded) - y.frac
             n == BitsToNat(SubSeq(padded, 1, w))
             fr == SubSeq(padded, w + 1, Len(padded))
             sticky == \E i \in 2..y.frac : fr[i] = 1
             up == y.frac > 0 /\ fr[1] = 1 /\ (sticky \/ n % 2 = 1)
         IN  n + (IF up THEN 1 ELSE 0)

\* "Calculate percentages": round((frequency / total) * 100, 1)
PainPointPercentage(ev) ==
    IF ev.total_posts_analyzed > 0
    THEN RoundOneDecimal(FloatTimes100(TrueDivide(ev.pain_point_frequency,
                                                  ev.total_posts_analyzed)))
    ELSE 0

WithPercentage(ev) ==
    [k \in DOMAIN ev \cup {"pain_point_percentage"} |->
        IF k = "pain_point_percentage" THEN PainPointPercentage(ev) ELSE ev[k]]

\* the whole function
RECURSIVE FoldLeads(_, _)
FoldLeads(ev, leads) ==
    IF leads = <<>> THEN ev ELSE FoldLeads(FoldLead(ev, Head(leads)), Tail(leads))

AggregateEvidenceForOpportunity(leads_data) ==
    WithPercentage(FoldLeads(NewEvidence(leads_data), leads_data))

\* The records of the model: three summaries, with and without a permalink,
\* and three analyses: one with every kind of evidence, one with none (a
\* quote that is not a dict, an empty financial dict, no urgency), one with
\* values outside the predefined keys.
Summaries == {"Late invoices", "No clear problem", "NO CLEAR PROBLEM"}
Permalinks == {"", "/r/a"}

FullAnalysis(summary) ==
    [problem_summary |-> summary,
     supporting_quotes |-> <<[isdict |-> TRUE, text |-> "q1"]>>,
     financial_indicators |-> [empty |-> FALSE, amounts_mentioned |-> <<"$50">>,
                               willing_to_pay |-> "Yes", cost_of_problem |-> "2h a week"],
     urgency_level |-> "High"]

BareAnalysis(summary) ==
    [problem_summary |-> summary,
     supporting_quotes |-> <<[isdict |-> FALSE, text |-> "q2"]>>,
     financial_indicators |-> [empty |-> TRUE, amounts_mentioned |-> <<>>,
                               willing_to_pay |-> Absent, cost_of_problem |-> ""],
     urgency_level |-> Absent]

OddAnalysis(summary) ==
    [problem_summary |-> summary,
     supporting_quotes |-> <<>>,
     financial_indicators |-> [empty |-> FALSE, amounts_mentioned |-> <<>>,
                               willing_to_pay |-> "Sometimes", cost_of_problem |-> ""],
     urgency_level |-> "Critical"]

LeadRecords ==
    UNION {{[permalink |-> p, content |-> {"upwork"}, analysis |-> FullAnalysis(s)],
            [permalink |-> p, content |-> {}, analysis |-> BareAnalysis(s)],
            [permalink |-> p, content |-> {"fiverr", "slack"}, analysis |-> OddAnalysis(s)]}
           : <<p, s>> \in Permalinks \X Summaries}

EvidenceIdle ==
    /\ eRecords = <<>> /\ eIdx = 0 /\ ePhase = "idle"
    /\ evidence = NewEvidence(<<>>)

\* the call, up to the loop
AggregateEnter ==
    /\ ePhase = "call"
    /\ evidence' = NewEvidence(eRecords)
    /\ eIdx' = 1
    /\ ePhase' = "loop"
    /\ UNCHANGED <<eRecords, pipeVars, consVars, retryVars, emptyBody>>

AggregateLead ==
    /\ ePhase = "loop"
    /\ eIdx <= Len(eRecords)
    /\ evidence' = FoldLead(evidence, eRecords[eIdx])
    /\ eIdx' = eIdx + 1
    /\ UNCHANGED <<eRecords, ePhase, pipeVars, consVars, retryVars, emptyBody>>

AggregateEnd ==
    /\ ePhase = "loop"
    /\ eIdx > Len(eRecords)
    /\ evidence' = WithPercentage(evidence)
    /\ ePhase' = "done"
    /\ UNCHANGED <<eRecords, eIdx, pipeVars, consVars, retryVars, emptyBody>>

(***************************************************************************)
(* The run.                                                                *)
(***************************************************************************)
Init ==
    /\ sessionFile \in {TRUE, FALSE}
    /\ runState = "idle" /\ stage = 0 /\ phase = "fetch"
    /\ leadStatus = InitLeadStatus
    /\ leadDomain = InitLeadDomain
    /\ emptyBody \in SUBSET {l \in SessionNew : ~HasRedditIdAndPermalink(l)}
    /\ opps = InitOpps
    /\ sessionLeadIds = {} /\ processedLeads = <<>> /\ themes = EmptyMap
    /\ sessionOppIds = {}
    /\ tasks = <<>> /\ fs = <<>>
    /\ ConsIdle
    /\ RetryIdle
    /\ EvidenceIdle

TaskIds == 1..(NLeads + 3)

Next ==
    \/ StartRun
    \/ Stage1Fetch
    \/ TaskStart
    \/ MapNext
    \/ MapRaise
    \/ MapEnd
    \/ ExecutorExit
    \/ ExecutorExitRaise
    \/ \E i \in TaskIds : Task1Analyze(i)
    \/ \E i \in TaskIds : Task1Write(i)
    \/ Stage2Fetch
    \/ ConsEnter
    \/ Pass1Batch
    \/ Pass1End
    \/ Pass2
    \/ Stage25
    \/ \E i \in TaskIds : Task3Analyze(i)
    \/ \E i \in TaskIds : Task3Insert(i)
    \/ \E i \in TaskIds : Task3Update(i)
    \/ \E i \in TaskIds : Task3MarkFailed(i)
    \/ Stage4Fetch
    \/ \E i \in TaskIds : Task4Validate(i)
    \/ \E i \in TaskIds : Task4Write(i)
    \/ Stage5Fetch
    \/ \E i \in TaskIds : Task5Brainstorm(i)
    \/ \E i \in TaskIds : Task5Insert(i)
    \/ \E i \in TaskIds : Task5Update(i)
    \/ \E i \in TaskIds : Task5MarkFailed(i)
    \/ Stage6Fetch
    \/ \E i \in TaskIds : Task6Lead(i)
    \/ \E i \in TaskIds : \E doc \in {"BRD", "PRD", "AGILE_PLAN"} : Task6Document(i, doc)
    \/ \E i \in TaskIds : Task6Final(i)
    \/ Finish

Spec == Init /\ [][Next]_vars

(***************************************************************************)
(* The consolidator on its own: every bounded input, every provider.       *)
(***************************************************************************)
PipelineIdle ==
    /\ sessionFile = FALSE /\ runState = "idle" /\ stage = 0 /\ phase = "fetch"
    /\ leadStatus = InitLeadStatus
    /\ leadDomain = InitLeadDomain
    /\ emptyBody = {}
    /\ opps = InitOpps /\ sessionLeadIds = {} /\ processedLeads = <<>>
    /\ themes = EmptyMap /\ sessionOppIds = {} /\ tasks = <<>> /\ fs = <<>>

InitThemes ==
    /\ PipelineIdle
    /\ cImpl \in {"agent", "analyzer"}
    /\ \E n \in 0..MaxLabels : cDomains = Take(LabelPool, n)
    /\ cRawDomains = cDomains
    /\ cBatchSize \in 1..MaxLabels
    /\ cMaxDomains \in 1..MaxLabels
    /\ cIdx = 0 /\ cResult = EmptyMap /\ cPhase = "call" /\ cOut = NoneResult
    /\ cLog = <<>>
    /\ RetryIdle
    /\ EvidenceIdle

NextThemes == ConsEnter \/ Pass1Batch \/ Pass1End \/ Pass2

SpecThemes == InitThemes /\ [][NextThemes]_vars

(***************************************************************************)
(* The consolidator as the orchestrator calls it, on lists of up to        *)
(* MaxNames labels, with the coarse provider.                              *)
(***************************************************************************)
InitManyThemes ==
    /\ PipelineIdle
    /\ cImpl \in {"agent", "analyzer"}
    /\ \E n \in 1..MaxNames : cDomains = Take(ManyLabels, n)
    /\ cRawDomains = cDomains
    /\ cBatchSize = THEME_BATCH_SIZE
    /\ cMaxDomains = MAX_DOMAINS_TO_PROCESS
    /\ cIdx = 0 /\ cResult = EmptyMap /\ cPhase = "call" /\ cOut = NoneResult
    /\ cLog = <<>>
    /\ RetryIdle
    /\ EvidenceIdle

SpecManyThemes == InitManyThemes /\ [][NextThemes]_vars

(***************************************************************************)
(* The retry wrapper on its own: every bounded pair of decorator           *)
(* arguments, both shapes of wrapped function, every provider.             *)
(***************************************************************************)
InitRetry ==
    /\ PipelineIdle
    /\ ConsIdle
    /\ rFunc \in {"enhanced", "base"}
    /\ rEmpty \in {TRUE, FALSE}
    /\ max_retries \in 0..MaxRetries
    /\ initial_delay \in 0..MaxDelay
    /\ retries = 0 /\ delay = 0 /\ rCalls = <<>> /\ rSleeps = <<>>
    /\ rPhase = "call" /\ rOut = ""
    /\ EvidenceIdle

NextRetry == RetryEnter \/ RetryAttempt \/ RetryLoopEnd

SpecRetry == InitRetry /\ [][NextRetry]_vars

(***************************************************************************)
(* The evidence aggregator on its own: every list of up to MaxRecords      *)
(* records.                                                                *)
(***************************************************************************)
InitEvidence ==
    /\ PipelineIdle
    /\ ConsIdle
    /\ RetryIdle
    /\ \E n \in 0..MaxRecords : eRecords \in [1..n -> LeadRecords]
    /\ eIdx = 0 /\ ePhase = "call"
    /\ evidence = NewEvidence(<<>>)

NextEvidence == AggregateEnter \/ AggregateLead \/ AggregateEnd

SpecEvidence == InitEvidence /\ [][NextEvidence]_vars

(***************************************************************************)
(* The percentage on its own: every list of up to MaxPosts records of      *)
(* which the first ones count and the others are skipped.                  *)
(***************************************************************************)
CountedRecord ==
    [permalink |-> "", content |-> {}, analysis |-> BareAnalysis("Late invoices")]

SkippedRecord ==
    [permalink |-> "", content |-> {}, analysis |-> BareAnalysis("No clear problem")]

InitCounts ==
    /\ PipelineIdle
    /\ ConsIdle
    /\ RetryIdle
    /\ \E t \in 0..MaxPosts : \E f \in 0..t :
          eRecords = [i \in 1..t |-> IF i <= f THEN CountedRecord ELSE SkippedRecord]
    /\ eIdx = 0 /\ ePhase = "call"
    /\ evidence = NewEvidence(<<>>)

SpecCounts == InitCounts /\ [][NextEvidence]_vars

(***************************************************************************)
(* Properties of the fan-out (specification Spec).                         *)
(***************************************************************************)

\* C1: during a stage's fan-out a failing task never causes a sibling task
\* of the same batch to be cancelled or skipped: no work item is ever
\* cancelled.
C1_NoSiblingCancelled ==
    \A i \in DOMAIN tasks : tasks[i].st # "cancelled"

\* C2: a failure raised inside a single-record task is caught at the task
\* boundary; it never leaves the stage's fan-out, and the run is never ended
\* by it.
C2_FailureStaysInTask ==
    /\ phase # "raise"
    /\ runState # "crashed"

\* C3: when Stage 1 finishes (main() is about to fetch for Stage 2), every
\* lead of the session that was in new_raw_lead is in problem_extracted or
\* problem_extraction_failed.
C3_Stage1LeavesNoNewLead ==
    (runState = "running" /\ stage = 2 /\ phase = "fetch")
        => \A l \in SessionNew :
              leadStatus[l] \in {"problem_extracted", "problem_extraction_failed"}

\* C4: a lead whose status write failed in Stage 1 is not fetched and
\* processed again: every lead a turn of the Stage 1 loop submits is one the
\* run has not fetched before.
C4_NoLeadFetchedTwice ==
    [][\A i \in DOMAIN tasks' :
          (i \notin DOMAIN tasks /\ tasks'[i].stage = 1)
              => tasks'[i].key \notin sessionLeadIds]_vars

\* C5: a lead's status changes only along new -> problem_extracted,
\* new -> problem_extraction_failed, problem_extracted -> opportunity_created
\* and problem_extracted -> thematic_analysis_failed; the three end statuses
\* are never left.
C5_LeadStatusPath ==
    [][LET LeadStep(a, b) ==
               \/ a = b
               \/ <<a, b>> \in {<<"new_raw_lead", "problem_extracted">>,
                                <<"new_raw_lead", "problem_extraction_failed">>,
                                <<"problem_extracted", "opportunity_created">>,
                                <<"problem_extracted", "thematic_analysis_failed">>}
       IN \A l \in AllLeads : LeadStep(leadStatus[l], leadStatus'[l])]_vars

\* C6: an opportunity is created in opportunity_defined and its status
\* changes only along opportunity_defined -> opportunity_validated ->
\* solutions_brainstormed -> planning_documents_generated and the failure
\* branches opportunity_defined -> opportunity_rejected, opportunity_defined
\* -> validation_failed, opportunity_validated -> solution_brainstorm_failed;
\* no row is removed, moved backwards or moved out of a failure status.
C6_OpportunityStatusPath ==
    [][LET OppStep(a, b) ==
               \/ a = b
               \/ <<a, b>> \in
                     {<<"opportunity_defined", "opportunity_validated">>,
                      <<"opportunity_defined", "opportunity_rejected">>,
                      <<"opportunity_defined", "validation_failed">>,
                      <<"opportunity_validated", "solutions_brainstormed">>,
                      <<"opportunity_validated", "solution_brainstorm_failed">>,
                      <<"solutions_brainstormed", "planning_documents_generated">>}
       IN /\ \A o \in DOMAIN opps :
                /\ o \in DOMAIN opps'
                /\ OppStep(opps[o].status, opps'[o].status)
          /\ \A o \in DOMAIN opps' \ DOMAIN opps :
                opps'[o].status = "opportunity_defined"]_vars

\* a row this run created went through all four statuses of the happy path
C6_SessionOpportunityPlanned ==
    \E o \in DOMAIN opps \ ForeignOpps : opps[o].status = "planning_documents_generated"

\* C7: stages are hard barriers: while a work item of a fan-out is pending
\* or running, main() is inside that stage's fan-out (it is not fetching,
\* not consolidating, not in another stage, and has not ended).
C7_StageBarrier ==
    \A i \in DOMAIN tasks :
        Unfinished(tasks[i])
            => /\ runState = "running"
               /\ tasks[i].stage = stage
               /\ phase \in {"map", "raise"}

\* a work item of Stage 4 runs: the fan-outs of Stages 1 and 3 have drained
C7_LaterStageRuns ==
    /\ stage = 4
    /\ \E i \in DOMAIN tasks : tasks[i].st = "running"

\* C8: every fan-out is over records in the stage's expected pre-state;
\* stages 2 to 6 take only leads fetched in Stage 1 of this run and
\* opportunities created in Stage 3 of this run; a lead or opportunity of
\* another run is never updated.
C8_SessionScopedFetchAndWrite ==
    [][/\ \A i \in DOMAIN tasks' \ DOMAIN tasks :
             LET t == tasks'[i] IN
             CASE t.stage = 1 ->
                     /\ leadStatus[t.key] = "new_raw_lead"
                     /\ LeadSession(t.key) = "this"
               [] t.stage = 3 ->
                     \A l \in Range(ThemeLeads(themes', processedLeads',
                                               ThemeOrder[t.key])) :
                         /\ l \in sessionLeadIds
                         /\ leadStatus[l] = "problem_extracted"
               [] t.stage = 4 ->
                     /\ t.key \in sessionOppIds
                     /\ opps[t.key].status = "opportunity_defined"
               [] t.stage = 5 ->
                     /\ t.key \in sessionOppIds
                     /\ opps[t.key].status = "opportunity_validated"
               [] t.stage = 6 ->
                     /\ t.key \in sessionOppIds
                     /\ opps[t.key].status = "solutions_brainstormed"
       /\ \A l \in AllLeads :
             (leadStatus'[l] # leadStatus[l] \/ leadDomain'[l] # leadDomain[l])
                 => l \in sessionLeadIds
       /\ \A o \in DOMAIN opps :
             opps'[o] # opps[o] => (o \in sessionOppIds /\ o \notin ForeignOpps)]_vars

\* Stages 3 and 4 have written rows of this run while rows of other runs in
\* the same statuses exist
C8_SessionRowsWritten ==
    /\ \E l \in SessionNew : leadStatus[l] = "opportunity_created"
    /\ \E o \in sessionOppIds : opps[o].status = "opportunity_validated"
    /\ leadStatus[OtherExtractedLead] = "problem_extracted"

(***************************************************************************)
(* Properties of the consolidator (specification SpecThemes).              *)
(***************************************************************************)

\* C9: for a non-empty label list the returned mapping is a partition of the
\* bounded input: every label kept by max_domains is in exactly one value
\* list, also when two batches return the same name and when a batch is
\* skipped (the provider doing its part: every call of it failed or
\* partitioned what it was given).
C9_OutputIsPartition ==
    (/\ cPhase = "done" /\ cOut.ok
     /\ \A k \in DOMAIN cLog : cLog[k] \in FailedKinds \cup {"partition"})
        => IsPartitionOf(cOut.map, Range(cDomains))

\* C10 as stated: for a non-empty label list consolidate returns failure
\* only if every pass-1 batch failed (provider error, unparsable text or a
\* non-mapping result).
C10_FailureOnlyIfEveryBatchFailed ==
    (cPhase = "done" /\ cDomains # <<>> /\ ~cOut.ok)
        => \A k \in 1..Pass1Calls : cLog[k] \in FailedKinds

\* C10, amended: for a non-empty label list consolidate returns failure
\* exactly when every pass-1 batch failed or returned an empty mapping (the
\* running map is empty); otherwise a mapping is returned and the failed
\* batches are skipped.
C10_FailureIffNothingMerged ==
    (cPhase = "done" /\ cDomains # <<>>)
        => (~cOut.ok <=> \A k \in 1..Pass1Calls : cLog[k] \in FailedKinds \cup {"empty"})

\* a mapping was returned although a pass-1 batch failed
C10_FailedBatchSkipped ==
    /\ cPhase = "done" /\ cOut.ok
    /\ \E k \in 1..Pass1Calls : cLog[k] \in FailedKinds

\* C11: when one of three pass-1 batches fails at the provider and the other
\* two succeed (each partitions its batch, and so does a second pass that
\* answers), consolidate returns a mapping, and the labels in its value
\* lists are those of the two successful batches.
C11_TwoOfThreeBatchesUnion ==
    (/\ cPhase = "done" /\ Pass1Calls = 3
     /\ Cardinality({k \in 1..3 : cLog[k] = "error"}) = 1
     /\ \A k \in 1..3 : cLog[k] \in {"error", "partition"}
     /\ \A k \in DOMAIN cLog : k > 3 => cLog[k] \in FailedKinds \cup {"partition"})
        => /\ cOut.ok
           /\ Members(cOut.map) =
                 UNION {Range(Batch(cDomains, (k - 1) * cBatchSize, cBatchSize)) :
                           k \in {j \in 1..3 : cLog[j] = "partition"}}

C27_LaterBatchReplaces ==
    [][(cPhase = "pass1" /\ cIdx' = cIdx + cBatchSize)
          => \A k \in DOMAIN cResult' :
                \/ k \in DOMAIN cResult /\ cResult'[k] = cResult[k]
                \/ Range(cResult'[k]) \subseteq Range(Batch(cDomains, cIdx, cBatchSize))]_vars

\* two batches of one label each both came back as {T1: [their label]}: the
\* running map holds the second label only
C27_SameNameTwice ==
    /\ cPhase = "pass1" /\ cBatchSize = 1 /\ cIdx = 2
    /\ cLog = <<"partition", "partition">>
    /\ DOMAIN cResult = {"T1"}
    /\ cResult["T1"] = <<cDomains[2]>>

\* C28: the label list is cut to its first max_domains labels and the cut
\* list is taken in contiguous batches of batch_size in input order: pass 1
\* makes ceil(min(n, max_domains) / batch_size) calls, the k-th for the
\* labels at positions (k - 1) * batch_size + 1 .. k * batch_size of the
\* list, and no label after position max_domains reaches the provider (no
\* such label is in the running map or in the result).
C28_TruncateThenContiguousBatches ==
    /\ [](cPhase \in {"pass1", "pass2", "done"}
            => LET n == Len(cRawDomains)
                   bounded == IF n < cMaxDomains THEN n ELSE cMaxDomains
                   calls == CHOOSE c \in 0..bounded :
                                /\ c * cBatchSize >= bounded
                                /\ (c - 1) * cBatchSize < bounded
                   kept == {cRawDomains[j] : j \in 1..bounded}
               IN  /\ cDomains = SubSeq(cRawDomains, 1, bounded)
                   /\ Members(cResult) \subseteq kept
                   /\ Members(cOut.map) \subseteq kept
                   /\ cPhase = "pass1" => /\ Len(cLog) <= calls
                                          /\ cIdx = Len(cLog) * cBatchSize
                   /\ (cPhase # "pass1" /\ n > 0) => Len(cLog) \in {calls, calls + 1})
    /\ [][(cPhase = "pass1" /\ cIdx' = cIdx + cBatchSize)
             => LET k == Len(cLog')
                    slice == {cRawDomains[j] :
                                 j \in {i \in 1..Len(cRawDomains) :
                                            /\ i > (k - 1) * cBatchSize
                                            /\ i <= k * cBatchSize
                                            /\ i <= cMaxDomains}}
                IN  \A name \in DOMAIN cResult' :
                       \/ name \in DOMAIN cResult /\ cResult'[name] = cResult[name]
                       \/ Range(cResult'[name]) \subseteq slice]_vars

\* three labels were given with max_domains 2 and batch_size 1: pass 1 made
\* two calls and the third label was sent to none
C28_ThirdLabelCutOff ==
    /\ cPhase = "done" /\ cOut.ok
    /\ Len(cRawDomains) = 3 /\ cMaxDomains = 2 /\ cBatchSize = 1
    /\ Len(cLog) >= 2
    /\ Members(cOut.map) = {cRawDomains[1], cRawDomains[2]}

\* C39 as stated: for the answer the second pass expanded (each list of the
\* result made of the first-pass lists of the names the answer lists under
\* it), every label of the result is in a first-pass list, and the labels
\* of a first-pass theme are in the result if and only if the answer lists
\* the name of the theme.
C39_ExpansionAsStated ==
    [][(cPhase = "pass2" /\ cPhase' = "done")
          => \E ans \in BatchAnswers(DOMAIN cResult \cup {StrayName}) :
                LET out == cOut'.map
                    listed == UNION {Range(ans.map[f]) : f \in DOMAIN ans.map}
                    Through(f) == {i \in DOMAIN ans.map[f] : ans.map[f][i] \in DOMAIN cResult}
                IN  /\ cOut'.ok
                    /\ IF ans.kind = "dict" /\ DOMAIN ans.map # {}
                       THEN /\ DOMAIN out = DOMAIN ans.map
                            /\ \A f \in DOMAIN out : \A x \in Members(cResult) \cup Members(out) :
                                  CountIn(out[f], x) =
                                     SumOver([i \in Through(f) |->
                                                 CountIn(cResult[ans.map[f][i]], x)], Through(f))
                            /\ Members(out) \subseteq Members(cResult)
                            /\ \A t \in DOMAIN cResult :
                                  Range(cResult[t]) \subseteq Members(out) <=> t \in listed
                       ELSE out = cResult]_vars

\* C39, amended: the second pass expands the provider's answer through the
\* first-pass map only.  Whatever the second-pass step returns, there is an
\* answer of the provider for which: when the answer is an object with
\* names, the result has the names of the answer, and each list of it holds
\* the members of the first-pass themes the answer lists under that name,
\* as often as they are listed, and nothing for a name the first-pass map
\* does not have; so every label of the result is in a first-pass list,
\* the labels of a first-pass theme the answer lists are in the result,
\* and, the first-pass lists being non-empty and disjoint, the labels of a
\* first-pass theme are in the result only if the answer lists it.  For any
\* other answer the first-pass map is returned.
C39_ExpansionThroughFirstPassMap ==
    [][(cPhase = "pass2" /\ cPhase' = "done")
          => \E ans \in BatchAnswers(DOMAIN cResult \cup {StrayName}) :
                LET out == cOut'.map
                    Known(f) == {i \in DOMAIN ans.map[f] : ans.map[f][i] \in DOMAIN cResult}
                    listed == UNION {Range(ans.map[f]) : f \in DOMAIN ans.map}
                    expanded == ans.kind = "dict" /\ DOMAIN ans.map # {}
                    apart == \A t, u \in DOMAIN cResult :
                                /\ cResult[t] # <<>>
                                /\ t # u => Range(cResult[t]) \cap Range(cResult[u]) = {}
                IN  /\ cOut'.ok
                    /\ ~expanded => out = cResult
                    /\ expanded
                         => /\ DOMAIN out = DOMAIN ans.map
                            /\ \A f \in DOMAIN out : \A x \in Members(cResult) \cup Members(out) :
                                  CountIn(out[f], x) =
                                     SumOver([i \in Known(f) |->
                                                 CountIn(cResult[ans.map[f][i]], x)], Known(f))
                            /\ Members(out) \subseteq Members(cResult)
                            /\ \A t \in DOMAIN cResult :
                                  t \in listed => Range(cResult[t]) \subseteq Members(out)
                            /\ apart => \A t \in DOMAIN cResult :
                                  Range(cResult[t]) \subseteq Members(out) => t \in listed]_vars

\* of two first-pass themes the second pass kept one: the labels of the
\* other are not in the result
C39_UnlistedThemeLeftOut ==
    /\ cPhase = "done" /\ Len(cLog) > Pass1Calls
    /\ cResult = [t \in {"T1", "T2"} |-> IF t = "T1" THEN <<"d1">> ELSE <<"d2">>]
    /\ cOut.ok
    /\ cOut.map = [t \in {"T1"} |-> <<"d2">>]

(***************************************************************************)
(* Properties of the consolidator on long lists (specification             *)
(* SpecManyThemes).                                                        *)
(***************************************************************************)
\* C29: when more than one theme name is left by pass 1 a second pass is
\* always attempted, in sub-batches when the names are more than the
\* batching threshold, in both copies of the consolidator: a finished call
\* whose first-pass map has more than one name made at least one model call
\* after those of pass 1.
C29_SecondPassAlwaysAttempted ==
    (cPhase = "done" /\ Cardinality(DOMAIN cResult) > 1)
        => Len(cLog) > Pass1Calls

(***************************************************************************)
(* Properties of the retry wrapper (specification SpecRetry).              *)
(***************************************************************************)

\* C13: with max_retries = 3 and initial_delay = 5 the wrapper calls the
\* wrapped function at most 3 times, calls it again only after the call
\* before raised the rate limit (any other outcome ends the wrapper), and
\* sleeps 5 before the 2nd and 10 before the 3rd call.
C13_RetrySchedule ==
    (/\ max_retries = DEFAULT_MAX_RETRIES
     /\ initial_delay = DEFAULT_INITIAL_DELAY
     /\ rPhase \in {"loop", "done"})
        => /\ Len(rCalls) <= 3
           /\ \A k \in 1..(Len(rCalls) - 1) :
                 FuncOutcome(rFunc, rCalls[k]) = "ResourceExhausted"
           /\ Len(rSleeps) = IF rPhase = "loop" \/ rCalls = <<>>
                             THEN Len(rCalls) ELSE Len(rCalls) - 1
           /\ rSleeps = SubSeq(<<5, 10>>, 1, Len(rSleeps))

\* the wrapper with the default arguments is about to make its third call
C13_ThirdAttemptDue ==
    /\ max_retries = DEFAULT_MAX_RETRIES /\ initial_delay = DEFAULT_INITIAL_DELAY
    /\ rPhase = "loop"
    /\ rSleeps = <<5, 10>>

\* C14: a provider that raises the rate limit on the first two calls and
\* succeeds on the third (wrapped function: the enhanced extraction, default
\* arguments) gives the caller one parsed result after exactly three calls
\* and two retries, and no exception.
C14_TwoRateLimitsThenSuccess ==
    (/\ rFunc = "enhanced"
     /\ max_retries = DEFAULT_MAX_RETRIES /\ initial_delay = DEFAULT_INITIAL_DELAY
     /\ rPhase = "done"
     /\ Len(rCalls) >= 2 /\ rCalls[1] = "rate_limited" /\ rCalls[2] = "rate_limited")
        => /\ Len(rCalls) = 3
           /\ rCalls[3] = "ok" => (rOut = "parsed" /\ retries = 2 /\ Len(rSleeps) = 2)

\* the scenario of C14 has run to its end
C14_ThirdCallSucceeded ==
    /\ rFunc = "enhanced"
    /\ max_retries = DEFAULT_MAX_RETRIES /\ initial_delay = DEFAULT_INITIAL_DELAY
    /\ rPhase = "done"
    /\ rCalls = <<"rate_limited", "rate_limited", "ok">>
    /\ rOut = "parsed"

\* C15: when every one of the max_retries (at least one) attempts raised the
\* rate limit, the wrapper raises that error to its caller, and it raises
\* the rate-limit error in no other case.
C15_ExhaustionPropagates ==
    (rPhase = "done" /\ max_retries >= 1)
        => (rOut = "ResourceExhausted"
              <=> /\ Len(rCalls) = max_retries
                  /\ \A k \in DOMAIN rCalls :
                        FuncOutcome(rFunc, rCalls[k]) = "ResourceExhausted")

\* three attempts were rate-limited and the error reached the caller
C15_ExhaustedAfterThree ==
    /\ rPhase = "done"
    /\ rOut = "ResourceExhausted"
    /\ Len(rCalls) = 3 /\ max_retries = 3

\* C16: a rate limit met by any model-calling operation is retried with
\* backoff and fails hard only when the retries are used up: it never ends
\* the call on its first occurrence (default arguments).
C16_RateLimitIsRetried ==
    (/\ max_retries = DEFAULT_MAX_RETRIES
     /\ rPhase = "done"
     /\ rCalls # <<>> /\ rCalls[1] = "rate_limited")
        => /\ Len(rCalls) >= 2
           /\ rSleeps # <<>>

\* the time the wrapper has slept so far
RECURSIVE TotalWait(_)
TotalWait(sleeps) ==
    IF sleeps = <<>> THEN 0 ELSE Head(sleeps) + TotalWait(Tail(sleeps))

\* every allowed attempt (at least one) was made and was rate-limited
AllAttemptsRateLimited ==
    /\ rPhase = "done" /\ max_retries >= 1
    /\ Len(rCalls) = max_retries
    /\ \A k \in DOMAIN rCalls : FuncOutcome(rFunc, rCalls[k]) = "ResourceExhausted"

\* C30 as stated: when every attempt is rate-limited the wrapper has waited
\* initial_delay * (2^max_retries - 1) in all (35 for 5 and 3).
C30_WorstCaseWaitAsStated ==
    AllAttemptsRateLimited
        => TotalWait(rSleeps) = initial_delay * (2 ^ max_retries - 1)

\* C30, amended: the wrapper sleeps between attempts only, so when every
\* one of the max_retries (at least one) attempts is rate-limited it has
\* waited initial_delay * (2^(max_retries - 1) - 1) in all (15 for 5 and 3),
\* and it never waits longer than that in one call.
C30_WorstCaseWait ==
    max_retries >= 1
        => /\ TotalWait(rSleeps) <= initial_delay * (2 ^ (max_retries - 1) - 1)
           /\ AllAttemptsRateLimited
                 => TotalWait(rSleeps) = initial_delay * (2 ^ (max_retries - 1) - 1)

\* the default wrapper gave up after three rate limits, having slept 15
C30_DefaultsWaitedFifteen ==
    /\ AllAttemptsRateLimited
    /\ max_retries = DEFAULT_MAX_RETRIES /\ initial_delay = DEFAULT_INITIAL_DELAY
    /\ rOut = "ResourceExhausted"
    /\ TotalWait(rSleeps) = 15

(***************************************************************************)
(* Properties of extraction and synthesis (specification Spec).            *)
(***************************************************************************)

\* C17: a lead whose body text is empty or blank is skipped: it is never
\* marked problem_extraction_failed.
C17_EmptyLeadNotMarkedFailed ==
    \A l \in emptyBody : leadStatus[l] # "problem_extraction_failed"

\* C18: provider text that is not valid JSON never leaves extraction as an
\* exception: the base path returns None, the enhanced path returns the
\* fixed fallback record (summary 'Error parsing response', domain
\* 'Unknown', urgency 'Low', saas potential 'Uncertain', no quotes, no
\* amounts).
C18_MalformedOutputRecovered ==
    (rPhase = "done" /\ rCalls # <<>> /\ rCalls[Len(rCalls)] = "bad_json")
        => /\ rOut = IF rFunc = "enhanced" THEN "fallback" ELSE "none"
           /\ FallbackResult.problem_summary = "Error parsing response"
           /\ FallbackResult.problem_domain = "Unknown"
           /\ FallbackResult.urgency_level = "Low"
           /\ FallbackResult.saas_potential_flag = "Uncertain"
           /\ FallbackResult.supporting_quotes = <<>>
           /\ FallbackResult.financial_indicators.amounts_mentioned = <<>>

\* the enhanced path got unparsable text on a retry and returned the fallback
C18_FallbackAfterRetry ==
    /\ rPhase = "done" /\ rFunc = "enhanced"
    /\ rCalls = <<"rate_limited", "bad_json">>
    /\ rOut = "fallback"

\* C19: when the summary call or the identification call of a theme fails,
\* find_and_create_themed_opportunities inserts no opportunity and leaves
\* every member lead of the theme thematic_analysis_failed.  Stated on the
\* step that returns straight from the two model calls.
C19_FailedAnalysisMarksLeads ==
    [][\A i \in DOMAIN tasks :
          (/\ Running(i, 3, "analyze")
           /\ i \in DOMAIN tasks'
           /\ tasks'[i].st = "done")
              => /\ opps' = opps
                 /\ \A l \in Range(TaskLeads(tasks[i])) :
                        leadStatus'[l] = "thematic_analysis_failed"]_vars

\* C20: when the insert of the opportunity raises or returns no row, every
\* member lead becomes thematic_analysis_failed, so that no member lead is
\* problem_extracted once the function has returned.  Stated on the step
\* that returns straight from the insert.
C20_FailedInsertMarksLeads ==
    [][\A i \in DOMAIN tasks :
          (/\ Running(i, 3, "insert")
           /\ i \in DOMAIN tasks'
           /\ tasks'[i].st = "done")
              => \A l \in Range(TaskLeads(tasks[i])) :
                     /\ leadStatus'[l] # "problem_extracted"
                     /\ leadStatus'[l] = "thematic_analysis_failed"]_vars

\* C21: the status write of validate_and_update_opportunity moves an
\* opportunity from opportunity_defined to opportunity_validated when the
\* recommendation is Go, to opportunity_rejected when it is No-Go and to
\* validation_failed when the call returned nothing, whatever the three
\* scores are.
C21_RecommendationDecidesStatus ==
    [][\A i \in DOMAIN tasks :
          (Running(i, 4, "write") /\ opps'[tasks[i].key] # opps[tasks[i].key])
              => LET r == tasks[i].res
                     o == tasks[i].key
                 IN  /\ opps[o].status = "opportunity_defined"
                     /\ r.kind = "none" => opps'[o].status = "validation_failed"
                     /\ (r.kind = "dict" /\ r.recommendation = "Go")
                            => opps'[o].status = "opportunity_validated"
                     /\ (r.kind = "dict" /\ r.recommendation = "No-Go")
                            => opps'[o].status = "opportunity_rejected"]_vars

\* the call returned scores 9, 2, 9 with recommendation Go and the status
\* about to be stored is opportunity_validated
C21_LowScoreGo ==
    \E i \in DOMAIN tasks :
        /\ Running(i, 4, "write")
        /\ tasks[i].res = [kind |-> "dict", recommendation |-> "Go", scores |-> <<9, 2, 9>>]
        /\ tasks[i].upd = "opportunity_validated"

\* C22: Stage 3 creates exactly one opportunity for every theme with at
\* least MIN_LEADS_FOR_THEME member leads and none for a theme with fewer.
\* Stated for a fan-out of Stage 3 that has drained with every call and
\* every store operation of every work item successful: the themes with
\* enough member leads are exactly the themes that got an opportunity, and
\* each opportunity holds the member leads of its theme.
C22_OneOpportunityPerLargeTheme ==
    (/\ runState = "running" /\ stage = 3 /\ phase = "exit"
     /\ \A i \in DOMAIN tasks : tasks[i].stage = 3 /\ tasks[i].st = "done" /\ tasks[i].ret # 0)
        => LET ThemeMembers(k) == Range(ThemeLeads(themes, processedLeads, ThemeOrder[k]))
               Large == {k \in DOMAIN ThemeOrder :
                            /\ ThemeOrder[k] \in DOMAIN themes
                            /\ Cardinality(ThemeMembers(k)) >= MIN_LEADS_FOR_THEME}
               Made == {tasks[i].key : i \in DOMAIN tasks}
           IN  /\ Made = Large
               /\ \A i \in DOMAIN tasks : opps[tasks[i].ret].leads = ThemeMembers(tasks[i].key)
               /\ Cardinality(DOMAIN opps \ ForeignOpps) = Cardinality(Large)

C33_StatusAgreesWithConcepts ==
    \A o \in DOMAIN opps :
        /\ opps[o].status = "solutions_brainstormed" => opps[o].concepts
        /\ opps[o].status = "solution_brainstorm_failed" => ~opps[o].concepts

\* C34: the planning documents of an opportunity are stored in the order
\* BRD, PRD, AGILE_PLAN, each as a new row: a stored PRD implies a stored
\* BRD, a stored AGILE_PLAN a stored PRD, and the status
\* planning_documents_generated all three; a step that stores a document
\* adds the one document its task is at, to an opportunity in
\* solutions_brainstormed that has the documents before it and not this
\* one; a step of a document that stores nothing ends the task and leaves
\* the opportunity as it was, in solutions_brainstormed.
C34_DocumentsInOrder ==
    /\ [](\A o \in DOMAIN opps :
             /\ "PRD" \in opps[o].docs => "BRD" \in opps[o].docs
             /\ "AGILE_PLAN" \in opps[o].docs => "PRD" \in opps[o].docs
             /\ opps[o].status = "planning_documents_generated"
                   => opps[o].docs = {"BRD", "PRD", "AGILE_PLAN"})
    /\ [][LET Before(d) == CASE d = "BRD" -> {}
                             [] d = "PRD" -> {"BRD"}
                             [] d = "AGILE_PLAN" -> {"BRD", "PRD"}
           IN  /\ \A o \in DOMAIN opps :
                     opps'[o].docs # opps[o].docs
                        => \E i \in DOMAIN tasks : \E d \in {"BRD", "PRD", "AGILE_PLAN"} :
                              /\ Running(i, 6, d) /\ tasks[i].key = o
                              /\ opps[o].docs = Before(d)
                              /\ opps'[o].docs = opps[o].docs \cup {d}
                              /\ opps[o].status = "solutions_brainstormed"
                              /\ opps'[o].status = "solutions_brainstormed"
               /\ \A i \in DOMAIN tasks : \A d \in {"BRD", "PRD", "AGILE_PLAN"} :
                     (/\ Running(i, 6, d)
                      /\ i \in DOMAIN tasks' /\ tasks'[i] # tasks[i]
                      /\ d \notin opps'[tasks[i].key].docs)
                        => /\ tasks'[i].st = "done"
                           /\ opps' = opps
                           /\ opps[tasks[i].key].status = "solutions_brainstormed"]_vars

\* an opportunity of the run has the three documents and the final status,
\* and another one stopped after its BRD
C34_AllThreeStored ==
    /\ \E o \in sessionOppIds :
          /\ opps[o].docs = {"BRD", "PRD", "AGILE_PLAN"}
          /\ opps[o].status = "planning_documents_generated"
    /\ \E o \in sessionOppIds :
          /\ opps[o].docs = {"BRD"}
          /\ opps[o].status = "solutions_brainstormed"
          /\ \A i \in DOMAIN tasks : tasks[i].key = o => tasks[i].st = "done"

\* C35: a lead in status opportunity_created is a member of a stored
\* opportunity, and an opportunity the run has inserted, once the call that
\* inserted it is over, has all its member leads in opportunity_created and
\* at no time a member lead in thematic_analysis_failed.
C35_InsertIsCommitPoint ==
    /\ \A l \in AllLeads :
          leadStatus[l] = "opportunity_created"
              => \E o \in DOMAIN opps : l \in opps[o].leads
    /\ \A o \in DOMAIN opps \ ForeignOpps :
          /\ \A l \in opps[o].leads : leadStatus[l] # "thematic_analysis_failed"
          /\ (\A i \in DOMAIN tasks : ~(tasks[i].st = "running" /\ tasks[i].opp = o))
                 => \A l \in opps[o].leads : leadStatus[l] = "opportunity_created"

\* C36: once Stage 3 is over every opportunity the run has inserted has its
\* id in the session opportunity set, and when the run completes none of
\* them is left in opportunity_defined.
C36_InsertedOpportunitiesAreValidated ==
    /\ ((runState = "running" /\ stage >= 4) \/ runState = "complete")
          => DOMAIN opps \ ForeignOpps \subseteq sessionOppIds
    /\ runState = "complete"
          => \A o \in DOMAIN opps \ ForeignOpps : opps[o].status # "opportunity_defined"

\* C37: no lead is a member of two themes handed to Stage 3, and the
\* opportunities a run has created have pairwise disjoint member leads,
\* whatever mapping the consolidator returned.
C37_ThemesShareNoLead ==
    /\ \A i, j \in DOMAIN tasks :
          (i # j /\ tasks[i].stage = 3 /\ tasks[j].stage = 3)
              => Range(TaskLeads(tasks[i])) \cap Range(TaskLeads(tasks[j])) = {}
    /\ \A o, q \in DOMAIN opps \ ForeignOpps :
          o # q => opps[o].leads \cap opps[q].leads = {}

\* C38: the leads a run may theme are the leads it fetched as new_raw_lead
\* in its own Stage 1: the id set grows only in Stage 1, by the leads of the
\* batch submitted, which are new_raw_lead rows of the session; Stage 2
\* takes the members of the id set that are problem_extracted and no other
\* lead; and a lead of the session that was problem_extracted before the
\* run is in no id set, group, theme or opportunity of the run and is never
\* updated.
C38_StaleLeadsNotResumed ==
    /\ [](/\ StaleExtractedLead \notin sessionLeadIds
          /\ StaleExtractedLead \notin Range(processedLeads)
          /\ Range(processedLeads) \subseteq sessionLeadIds
          /\ \A i \in DOMAIN tasks :
                tasks[i].stage = 3 => Range(TaskLeads(tasks[i])) \subseteq sessionLeadIds
          /\ \A o \in DOMAIN opps \ ForeignOpps : opps[o].leads \subseteq sessionLeadIds
          /\ leadStatus[StaleExtractedLead] = "problem_extracted"
          /\ leadDomain[StaleExtractedLead] = InitLeadDomain[StaleExtractedLead])
    /\ [][/\ (sessionLeadIds' # sessionLeadIds /\ runState = "running")
               => /\ stage = 1
                  /\ sessionLeadIds' \ sessionLeadIds \subseteq
                        {tasks'[i].key : i \in DOMAIN tasks' \ DOMAIN tasks}
                  /\ \A i \in DOMAIN tasks' \ DOMAIN tasks :
                        /\ tasks'[i].key \in sessionLeadIds'
                        /\ leadStatus[tasks'[i].key] = "new_raw_lead"
                        /\ LeadSession(tasks'[i].key) = "this"
          /\ processedLeads' \notin {processedLeads, <<>>}
               => /\ stage = 2
                  /\ Range(processedLeads') =
                        {l \in sessionLeadIds : leadStatus[l] = "problem_extracted"}]_vars

\* the run made an opportunity out of leads of the domain of the lead that
\* was problem_extracted before the run, without that lead
C38_ThemedWithoutStaleLead ==
    /\ runState = "running" /\ stage >= 4
    /\ \E o \in sessionOppIds :
          /\ opps[o].leads # {}
          /\ \A l \in opps[o].leads :
                leadDomain[l] = leadDomain[StaleExtractedLead] /\ l \in SessionNew
    /\ leadStatus[StaleExtractedLead] = "problem_extracted"

C23_OrderIndependent ==
    ePhase = "done"
        => LET BagOf(q) == [x \in Range(q) |-> Cardinality({i \in DOMAIN q : q[i] = x})]
               n == Len(eRecords)
           IN  \A p \in Permutations(1..n) :
                  LET other == AggregateEvidenceForOpportunity([i \in 1..n |-> eRecords[p[i]]])
                  IN  /\ other.willing_to_pay_counts = evidence.willing_to_pay_counts
                      /\ other.urgency_distribution = evidence.urgency_distribution
                      /\ other.competitor_mentions = evidence.competitor_mentions
                      /\ other.pain_point_frequency = evidence.pain_point_frequency
                      /\ other.total_posts_analyzed = evidence.total_posts_analyzed
                      /\ other.pain_point_percentage = evidence.pain_point_percentage
                      /\ BagOf(other.supporting_quotes) = BagOf(evidence.supporting_quotes)
                      /\ BagOf(other.source_posts) = BagOf(evidence.source_posts)
                      /\ BagOf(other.amounts_mentioned) = BagOf(evidence.amounts_mentioned)
                      /\ BagOf(other.total_cost_of_problems) = BagOf(evidence.total_cost_of_problems)
                      /\ BagOf(other.source_links) = BagOf(evidence.source_links)

\* three records were aggregated whose order shows in the lists: two
\* different source posts, and a record that opened the bucket Critical
\* after the bucket High was counted
C23_OrderShowsInLists ==
    /\ ePhase = "done" /\ Len(eRecords) = 3
    /\ Len(evidence.source_posts) = 2
    /\ evidence.source_posts[1] # evidence.source_posts[2]
    /\ eRecords[1].analysis.urgency_level = "High"
    /\ "Critical" \in DOMAIN evidence.urgency_distribution
    /\ evidence.urgency_distribution["High"] = 1

\* C24: a record whose problem_summary is 'No clear problem' in any letter
\* case adds nothing to the frequency, the quotes, the amounts and costs,
\* the three histograms, the source links and the source posts: the
\* aggregate equals that of the list without such records in all of these,
\* and the record is counted in total_posts_analyzed only.
C24_SentinelContributesNothing ==
    ePhase = "done"
        => LET kept == SelectSeq(eRecords,
                                 LAMBDA r : r.analysis.problem_summary \notin
                                                {"No clear problem", "NO CLEAR PROBLEM"})
               ref == FoldLeads(NewEvidence(kept), kept)
           IN  /\ evidence.total_posts_analyzed = Len(eRecords)
               /\ evidence.pain_point_frequency = Len(kept)
               /\ evidence.pain_point_frequency = ref.pain_point_frequency
               /\ evidence.supporting_quotes = ref.supporting_quotes
               /\ evidence.amounts_mentioned = ref.amounts_mentioned
               /\ evidence.total_cost_of_problems = ref.total_cost_of_problems
               /\ evidence.willing_to_pay_counts = ref.willing_to_pay_counts
               /\ evidence.urgency_distribution = ref.urgency_distribution
               /\ evidence.competitor_mentions = ref.competitor_mentions
               /\ evidence.source_links = ref.source_links
               /\ evidence.source_posts = ref.source_posts
               /\ \A i \in DOMAIN evidence.source_posts :
                      evidence.source_posts[i].problem_summary \notin
                          {"No clear problem", "NO CLEAR PROBLEM"}

\* a record with the summary in capitals, a permalink, a quote, an amount
\* and a competitor in its text was aggregated after a record that counts
C24_CapitalSentinelSkipped ==
    /\ ePhase = "done" /\ Len(eRecords) = 2
    /\ eRecords[1].analysis.problem_summary = "Late invoices"
    /\ eRecords[2] = [permalink |-> "/r/a", content |-> {"upwork"},
                      analysis |-> FullAnalysis("NO CLEAR PROBLEM")]
    /\ evidence.total_posts_analyzed = 2
    /\ evidence.pain_point_frequency = 1

\* C31: every record the sentinel test does not skip appends one entry to
\* source_posts, with or without a permalink: after aggregation
\* source_posts is as long as pain_point_frequency.
C31_OneSourcePostPerCountedRecord ==
    ePhase = "done" => Len(evidence.source_posts) = evidence.pain_point_frequency

C25_PercentageIsRoundedQuotient ==
    ePhase = "done"
        => LET t == Len(eRecords)
               f == Cardinality({i \in DOMAIN eRecords :
                                    eRecords[i].analysis.problem_summary = "Late invoices"})
               pct == evidence.pain_point_percentage
               q == (1000 * f) \div t
               r == (1000 * f) % t
               rounded == IF 2 * r < t THEN q
                          ELSE IF 2 * r > t THEN q + 1
                          ELSE IF q % 2 = 0 THEN q ELSE q + 1
           IN  /\ t = 0 => pct = 0
               /\ t # 0 => pct = rounded
               /\ pct >= 0 /\ pct <= 1000

====
